---------------------------- MODULE Spec2Model ----------------------------
(***************************************************************************)
(* A model of the ADNL node of tiny-adnl (src/src/adnl_node/mod.rs) and of *)
(* the buckets of its DHT node.                                            *)
(*                                                                         *)
(* The node is modelled one subsystem at a time.  Every subsystem has its  *)
(* own group of variables and its own specification; a specification      *)
(* leaves the variables of the other subsystems parked at their initial   *)
(* value.                                                                  *)
(*                                                                         *)
(*   SpecQuery / FairSpecQuery   the query registry, query_raw, its        *)
(*                               timeout task and the drop timeout         *)
(*   SpecSend                    send_message and send_packet of           *)
(*                               concurrent tasks towards one peer         *)
(*   SpecDemote                  send_packet after ten priority packets    *)
(*   SpecAnswer                  a Query and the Answer sent for it        *)
(*   SpecTransfer                multipart transfers                       *)
(*   FairSpecTransfer            multipart transfers and their janitors,   *)
(*                               with finitely many Parts                  *)
(*   SpecRecv                    the packet history of a receiver          *)
(*   SpecReinit                  the reinit dates of a handshake packet    *)
(*   SpecChan                    create_channel, reset_peer, the lookup    *)
(*   FairSpecBoot                channel bootstrapping between two nodes   *)
(*   SpecSource                  the source and signature of a packet      *)
(*   SpecReplay                  a datagram handled more than once         *)
(*   SpecNode / FairSpecNode     start, shutdown, the two socket loops     *)
(*   SpecHandshake               the handshake codec (utils/handshake.rs)  *)
(*   SpecPeers                   add_peer and the peers table              *)
(*   SpecIdentities              one peer of a node with two local ids     *)
(*   SpecGuards                  the guards tasks hold on the tables       *)
(*   SpecBuckets                 the DHT buckets (dht_node/buckets.rs)     *)
(*                                                                         *)
(* QueriesCache, AdnlPeer, AdnlChannel, Transfer and PacketsHistory are    *)
(* not part of the sources at hand: they are modelled from the written     *)
(* specification (sections 3 and 4) and marked so in the model map.        *)
(***************************************************************************)
EXTENDS Integers, Sequences, FiniteSets, TLC

(***************************************************************************)
(* Bounds of the model.                                                    *)
(***************************************************************************)
\* number of query_raw calls
MaxQueries == 2
\* number of Answer messages the handlers dispatch
MaxAnswers == 1
\* last tick of the wall clock
MaxTime == 3
\* number of channel objects the query scenario creates
MaxChannels == 2
\* the drop timeout is set this many ticks ahead (query_max_timeout, scaled)
DropDelay == 1

\* number of tasks that call send_message concurrently
MaxSenders == 2
\* number of send_message calls
MaxSendCalls == 2
\* the reassembler: units of the body, Part arrivals, handler tasks, transfers
BodyLen == 2
MaxArrivals == 4
MaxHandlers == 2
MaxTransfers == 3
\* number of Part messages in the runs checked for termination
MaxLiveArrivals == 3
\* check_packet: the window W of a history, the seqnos, the packets checked
HistoryWindow == 2
MaxSeqno == 3
MaxPackets == 3
MaxSends == 1
\* the channel tables: tasks running create_channel or reset_peer, packet
\* handlers looking channels up, channel objects
MaxTasks == 2
MaxObservers == 1
MaxChannelObjects == 2
\* channel bootstrapping: the dates now() gives the CreateChannel messages
MaxDate == 2
\* source resolution: the packets handed to check_packet
MaxChecks == 3
\* replays: the datagrams handled, the addresses a peer announces
MaxDatagrams == 3
MaxAddresses == 2
\* the node: start calls, packets queued, results of recv_from
MaxStarts == 3
MaxQueued == 2
MaxReceived == 3
\* the handshake codec: the length of a body, in bytes
MaxBody == 3
\* the guards: concurrent tasks and the calls they make
MaxGuardTasks == 3
MaxCalls == 3
\* the buckets: versions of a node record, the k of find
MaxVersion == 2
MaxK == 2

VARIABLES
    \* ---- query registry and query_raw (SpecQuery) ----
    queries,            \* QueriesCache: query id -> state of the pending query
    qpc,                \* position of each query_raw call
    qtimer,             \* position of the timeout task of each query
    qchannel,           \* the channel query_raw captured after the send
    qresult,            \* what query_raw returned
    qobserved,          \* the outcomes the waiter observed, in order
    updLog,             \* every update_query call on an id, in order
    qanswers,           \* number of Answer messages dispatched so far
    qnow,               \* now(), in ticks
    qpeer,              \* the peer entry of the peer table (absent or its state)
    qchannels_by_peers, \* channels_by_peers[peer]: a channel object or NoChannel
    qchannels_by_id,    \* the channel objects whose in-ids are in channels_by_id
    qdrop_timeout,      \* drop_timeout of every channel object
    qnext_channel       \* the next channel object to be allocated

qvars == <<queries, qpc, qtimer, qchannel, qresult, qobserved, updLog, qanswers, qnow,
           qpeer, qchannels_by_peers, qchannels_by_id, qdrop_timeout,
           qnext_channel>>

VARIABLES
    \* ---- send_message / send_packet towards one peer (SpecSend) ----
    s_channel,          \* channels_by_peers[peer]: "none", "notready" or "ready"
    s_sender_seqno,     \* peer.sender_state().history(priority).seqno()
    s_receiver_seqno,   \* peer.receiver_state().history(priority).seqno()
    s_call,             \* the send_message call of every sending task
    s_calls,            \* number of send_message calls made so far
    s_issued,           \* the seqnos handed out per priority class, in order
    s_queue             \* sender_queue_tx: <<priority, seqno>> of the queued packets

svars == <<s_channel, s_sender_seqno, s_receiver_seqno, s_call, s_calls, s_issued,
           s_queue>>

VARIABLES
    \* ---- process_message on the Parts of one body (SpecTransfer) ----
    incoming_transfers, \* incoming_transfers[hash]: a Transfer object or NoTransfer
    t_covered,          \* the units of the body each Transfer object has received
    t_janitor,          \* the Transfer objects whose janitor task is still running
    t_handler,          \* the handler tasks inside process_message
    t_arrivals,         \* number of Part messages handed to process_message
    t_arrived,          \* the units of the body carried by those Parts
    t_dispatched,       \* how often the reassembled body was dispatched
    t_expired,          \* a janitor has removed a transfer
    t_fresh,            \* the Transfer objects refreshed within transfer_timeout_sec
    t_last              \* the last process_message call on a Part that returned

tvars == <<incoming_transfers, t_covered, t_janitor, t_handler, t_arrivals, t_arrived,
           t_dispatched, t_expired, t_fresh, t_last>>

VARIABLES
    \* ---- check_packet on the packets of one peer (SpecRecv) ----
    r_enabled,          \* options.packet_history_enabled
    r_history,          \* peer.receiver_state().history(priority): max and seen seqnos
    r_sender_seqno,     \* peer.sender_state().history(priority).seqno()
    r_peer_reinit,      \* peer.sender_state().reinit_date()
    r_accepted,         \* how often check_packet accepted <<reinit, priority, seqno>>
    r_sent,             \* packets send_packet built per class since the last reinit
    r_packets,          \* number of packets handed to check_packet
    r_last              \* the last handle_received_data call

rvars == <<r_enabled, r_history, r_sender_seqno, r_peer_reinit, r_accepted, r_sent,
           r_packets, r_last>>

VARIABLES
    \* ---- channels_by_peers and channels_by_id of one peer (SpecChan) ----
    channels_by_peers,  \* channels_by_peers[peer]: a channel object or NoChannel
    channels_by_id,     \* the <<channel, class>> whose in-id is in channels_by_id
    c_ready,            \* the channel objects that are ready
    c_params,           \* c_params[channel]: the <<peer key, peer date>> it stores
    c_peer,             \* whether the peer is in the peers table
    c_last,             \* the last create_channel call that matched the channel
    c_entry_lock,       \* the task holding the channels_by_peers entry, or NoTask
    c_task,             \* the tasks inside create_channel or reset_peer
    c_handler           \* the packet handlers between lookup and check_packet

cvars == <<channels_by_peers, channels_by_id, c_ready, c_params, c_peer, c_last,
           c_entry_lock, c_task, c_handler>>

VARIABLES
    \* ---- channel bootstrapping between two nodes (SpecBoot) ----
    b_channel,          \* per node: its channel for the other node, or NoBootChannel
    b_date,             \* per node: now() when it sends its CreateChannel messages
    b_net,              \* per node: the packets in flight towards it
    b_sent              \* per node: the framing of the last packet it sent

bvars == <<b_channel, b_date, b_net, b_sent>>

VARIABLES
    \* ---- check_packet: who sent the packet, and its signature (SpecSource) ----
    k_required,         \* options.packet_signature_required
    k_peers,            \* the peers in the peer table of the local id
    k_channels,         \* the peers with an entry in channels_by_peers
    k_checked,          \* number of packets handed to check_packet
    k_last              \* the last packet handed to check_packet and the result

kvars == <<k_required, k_peers, k_channels, k_checked, k_last>>

VARIABLES
    \* ---- handle_received_data on the datagrams of one peer (SpecReplay) ----
    g_present,          \* the peer is in the peer table
    g_ip,               \* peer.ip_address()
    g_reinit,           \* peer.sender_state().reinit_date()
    g_history,          \* peer.receiver_state().history(priority)
    g_channel,          \* the channel of the peer: "none", "notready" or "ready"
    g_drop,             \* the drop timeout of the channel is set (not zero)
    g_accepted,         \* the datagrams whose messages were dispatched
    g_handled,          \* number of datagrams handled
    g_last              \* the last handle_received_data call

gvars == <<g_present, g_ip, g_reinit, g_history, g_channel, g_drop, g_accepted,
           g_handled, g_last>>

VARIABLES
    \* ---- start, shutdown, the sender and the receiver task (SpecNode) ----
    n_rx,               \* sender_queue_rx: "present" or "taken"
    n_cancelled,        \* cancellation_token is cancelled
    n_sender,           \* the sender task: "none", "waiting", "sending", "stopped"
    n_receiver,         \* the receiver task: "none", "waiting", "stopped"
    n_spawns,           \* how often start spawned the two tasks
    n_starts,           \* number of start calls
    n_last_start,       \* the last start call: its result, n_spawns before it
    n_queue,            \* number of packets in the sender queue
    n_enqueued,         \* number of packets queued so far
    n_socket,           \* what recv_from will return next, in order
    n_arrived,          \* number of recv_from results so far
    n_running,          \* number of handler tasks that have not returned
    n_handlers,         \* number of handler tasks spawned so far
    n_written,          \* number of send_to calls so far
    n_errors,           \* the kinds of error seen so far
    n_after             \* what the loops did after every kind of error was seen

nvars == <<n_rx, n_cancelled, n_sender, n_receiver, n_spawns, n_starts, n_last_start,
           n_queue, n_enqueued, n_socket, n_arrived, n_running, n_handlers,
           n_written, n_errors, n_after>>

VARIABLES
    \* ---- the handshake codec (SpecHandshake) ----
    h_pc,               \* "idle", "built" (a packet was built), "parsed", or
                        \* "received" (a datagram of the socket was parsed)
    h_body,             \* the body handed to build_handshake_packet
    h_key,              \* the recipient key handed to build_handshake_packet
    h_packet,           \* the buffer build_handshake_packet left
    h_keys,             \* the local keys handed to parse_handshake_packet
    h_data_length,      \* the data_length handed to parse_handshake_packet
    h_parsed            \* what parse_handshake_packet returned, and the buffer

hvars == <<h_pc, h_body, h_key, h_packet, h_keys, h_data_length, h_parsed>>

VARIABLES
    \* ---- incoming queries and their answers (SpecAnswer) ----
    a_query,            \* per handler task: the Query it got and what became of it
    a_peer              \* is the sending peer in the peer table
avars == <<a_query, a_peer>>

VARIABLES
    \* ---- the peers table of one local id (SpecPeers) ----
    p_peers,            \* p_peers[peer_id]: the peer's state, or NoPeer
    p_last              \* the last add_peer call: what it was given and what it did
pvars == <<p_peers, p_last>>

VARIABLES
    \* ---- one peer of a node with two local identities (SpecIdentities) ----
    m_channel,          \* channels_by_peers[peer]: the channel, or NoIdChannel
    m_peers,            \* the local ids whose peers table holds the peer
    m_key,              \* m_key[local_id]: generation of peer.channel_key()
    m_last              \* the last send_message or create_channel call
mvars == <<m_channel, m_peers, m_key, m_last>>

VARIABLES
    \* ---- the guards of the tasks of one peer (SpecGuards) ----
    l_task,             \* l_task[t]: the guard operations of the call and its position
    l_calls             \* number of calls started

lvars == <<l_task, l_calls>>

VARIABLES
    \* ---- the buckets of a DHT node (SpecBuckets) ----
    u_local,            \* the local id of the node
    u_checks,           \* the build checks integer overflow (debug) or wraps (release)
    u_buckets,          \* the node records in the buckets: bucket, peer id, version
    u_seen,             \* the highest version handed to insert, per peer id
    u_last              \* the last call of insert, find or get_affinity

uvars == <<u_local, u_checks, u_buckets, u_seen, u_last>>

vars == <<qvars, svars, tvars, rvars, cvars, bvars, kvars, gvars, nvars, hvars,
         avars, pvars, mvars, lvars, uvars>>

\* what the actions of one subsystem leave alone
notQ == <<svars, tvars, rvars, cvars, bvars, kvars, gvars, nvars, hvars, avars,
         pvars, mvars, lvars, uvars>>
notS == <<qvars, tvars, rvars, cvars, bvars, kvars, gvars, nvars, hvars, avars,
         pvars, mvars, lvars, uvars>>
notT == <<qvars, svars, rvars, cvars, bvars, kvars, gvars, nvars, hvars, avars,
         pvars, mvars, lvars, uvars>>
notR == <<qvars, svars, tvars, cvars, bvars, kvars, gvars, nvars, hvars, avars,
         pvars, mvars, lvars, uvars>>
notC == <<qvars, svars, tvars, rvars, bvars, kvars, gvars, nvars, hvars, avars,
         pvars, mvars, lvars, uvars>>
notB == <<qvars, svars, tvars, rvars, cvars, kvars, gvars, nvars, hvars, avars,
         pvars, mvars, lvars, uvars>>
notK == <<qvars, svars, tvars, rvars, cvars, bvars, gvars, nvars, hvars, avars,
         pvars, mvars, lvars, uvars>>
notG == <<qvars, svars, tvars, rvars, cvars, bvars, kvars, nvars, hvars, avars,
         pvars, mvars, lvars, uvars>>
notN == <<qvars, svars, tvars, rvars, cvars, bvars, kvars, gvars, hvars, avars,
         pvars, mvars, lvars, uvars>>
notH == <<qvars, svars, tvars, rvars, cvars, bvars, kvars, gvars, nvars, avars,
         pvars, mvars, lvars, uvars>>
notA == <<qvars, svars, tvars, rvars, cvars, bvars, kvars, gvars, nvars, hvars,
         pvars, mvars, lvars, uvars>>
notP == <<qvars, svars, tvars, rvars, cvars, bvars, kvars, gvars, nvars, hvars,
         avars, mvars, lvars, uvars>>
notM == <<qvars, svars, tvars, rvars, cvars, bvars, kvars, gvars, nvars, hvars,
         avars, pvars, lvars, uvars>>
notL == <<qvars, svars, tvars, rvars, cvars, bvars, kvars, gvars, nvars, hvars,
         avars, pvars, mvars, uvars>>
notU == <<qvars, svars, tvars, rvars, cvars, bvars, kvars, gvars, nvars, hvars,
         avars, pvars, mvars, lvars>>
\* the groups a handler of a Query leaves alone
notSA == <<qvars, tvars, rvars, cvars, bvars, kvars, gvars, nvars, hvars, pvars,
          mvars, lvars, uvars>>

-----------------------------------------------------------------------------
(***************************************************************************)
(* The query registry (QueriesCache, section 4.8 of the specification).    *)
(***************************************************************************)
QueryIds == 1..MaxQueries
\* an id no query_raw call ever registered
UnknownQueryId == 0
AnswerIds == QueryIds \cup {UnknownQueryId}
Answers == {"a1", "a2"}
NoAnswer == "none"
NoChannel == 0
ChannelObjects == 1..MaxChannels

\* PendingQuery: state in {Sent, Answered(bytes), Dropped}; Absent: not in the map
Absent == [kind |-> "Absent", answer |-> NoAnswer]
Sent == [kind |-> "Sent", answer |-> NoAnswer]
Dropped == [kind |-> "Dropped", answer |-> NoAnswer]
Answered(a) == [kind |-> "Answered", answer |-> a]

\* add_query(id): registers a waiter
add_query(qs, id) == [qs EXCEPT ![id] = Sent]

\* update_query(id, answer): the new state of the entry; answer = NoAnswer is
\* update_query(id, None)
update_query_state(old, answer) ==
    IF old.kind = "Sent"
    THEN IF answer = NoAnswer THEN Dropped ELSE Answered(answer)
    ELSE old

\* update_query(id, answer): true on first success, false on duplicate or unknown
update_query_returns(old) == old.kind = "Sent"

\* PendingQuery::wait: what the waiter yields once the query left Sent
wait_yields(state) ==
    IF state.kind = "Answered" THEN [ok |-> TRUE, value |-> state.answer]
    ELSE [ok |-> TRUE, value |-> NoAnswer]


\* a process_message_answer that reports every Answer as handled
ProcessMessageAnswerAlwaysOk(updated) == "Ok"

\* AdnlNode::process_message_answer: Ok when update_query returned true
ProcessMessageAnswerResult(updated) ==
    IF updated THEN "Ok" ELSE "UnknownQueryAnswer"

\* one update_query call as it is recorded in updLog
UpdateRecord(id, answer, caller) ==
    LET old == queries[id]
        new == update_query_state(old, answer)
        ret == update_query_returns(old)
    IN [answer |-> answer,
        returned |-> ret,
        changed |-> new # old,
        registered |-> id \in QueryIds /\ qpc[id] # "idle",
        result |-> IF caller = "answer" THEN ProcessMessageAnswerResult(ret)
                   ELSE "timer"]

Pending == [tag |-> "Pending", value |-> NoAnswer]
OkSome(a) == [tag |-> "Ok", value |-> a]
OkNone == [tag |-> "Ok", value |-> NoAnswer]
Err(e) == [tag |-> "Err", value |-> e]

\* AdnlChannel::update_drop_timeout(now): sets the deadline if it is zero
update_drop_timeout(was, now) == IF was = 0 THEN now + DropDelay ELSE was

\* a query_raw that resets the peer on any deadline that is set
DropTimeoutSet(was, now) == was > 0

\* query_raw: the drop timeout observed before the update resets the peer
DropTimeoutExpired(was, now) == (was > 0) /\ (was < now)

\* the query subsystem before any query_raw call
QStart ==
    /\ queries = [id \in AnswerIds |-> Absent]
    /\ qpc = [id \in QueryIds |-> "idle"]
    /\ qtimer = [id \in QueryIds |-> "none"]
    /\ qchannel = [id \in QueryIds |-> NoChannel]
    /\ qresult = [id \in QueryIds |-> Pending]
    /\ qobserved = [id \in QueryIds |-> <<>>]
    /\ updLog = [id \in AnswerIds |-> <<>>]
    /\ qanswers = 0
    /\ qnow = 1
    /\ qpeer = [present |-> TRUE, channel_key |-> 1]
    /\ qchannels_by_peers = NoChannel
    /\ qchannels_by_id = {}
    /\ qdrop_timeout = [c \in ChannelObjects |-> 0]
    /\ qnext_channel = 1

\* query_raw up to its first await: a fresh query id is registered, the Query
\* is handed to send_message (which fails for a peer that is not in the table),
\* the peer's channel is captured and the timeout task is spawned
QueryRawStart(id) ==
    /\ qpc[id] = "idle"
    /\ \A j \in QueryIds : j < id => qpc[j] # "idle"
    /\ queries' = add_query(queries, id)
    /\ IF qpeer.present
       THEN /\ qchannel' = [qchannel EXCEPT ![id] = qchannels_by_peers]
            /\ qtimer' = [qtimer EXCEPT ![id] = "armed"]
            /\ qpc' = [qpc EXCEPT ![id] = "waiting"]
            /\ UNCHANGED qresult
       ELSE /\ qpc' = [qpc EXCEPT ![id] = "returned"]
            /\ qresult' = [qresult EXCEPT ![id] = Err("UnknownPeer")]
            /\ UNCHANGED <<qchannel, qtimer>>
    /\ UNCHANGED <<qobserved, updLog, qanswers, qnow, qpeer,
                   qchannels_by_peers, qchannels_by_id, qdrop_timeout,
                   qnext_channel>>
    /\ UNCHANGED notQ

\* a timeout task that sleeps and then leaves the query as it is
TimeoutTaskForgets(state) == state

\* the body of the timeout task: queries.update_query(query_id, None)
TimeoutTaskUpdate(state) == update_query_state(state, NoAnswer)

\* the timeout task: after its sleep, update_query(query_id, None)
TimerFire(id) ==
    /\ qtimer[id] = "armed"
    /\ updLog' = [updLog EXCEPT ![id] = Append(@, UpdateRecord(id, NoAnswer, "timer"))]
    /\ queries' = [queries EXCEPT ![id] = TimeoutTaskUpdate(@)]
    /\ qtimer' = [qtimer EXCEPT ![id] = "done"]
    /\ UNCHANGED <<qpc, qchannel, qresult, qobserved, qanswers, qnow, qpeer,
                   qchannels_by_peers, qchannels_by_id, qdrop_timeout,
                   qnext_channel>>
    /\ UNCHANGED notQ

\* a datagram handler dispatches Answer{query_id, answer}
ProcessMessageAnswer(id, a) ==
    /\ qanswers < MaxAnswers
    /\ qanswers' = qanswers + 1
    /\ updLog' = [updLog EXCEPT ![id] = Append(@, UpdateRecord(id, a, "answer"))]
    /\ queries' = [queries EXCEPT ![id] = update_query_state(@, a)]
    /\ UNCHANGED <<qpc, qtimer, qchannel, qresult, qobserved, qnow, qpeer,
                   qchannels_by_peers, qchannels_by_id, qdrop_timeout,
                   qnext_channel>>
    /\ UNCHANGED notQ

\* query_raw: what it returns for an answer the waiter yielded
QueryRawAnswered(y) == OkSome(y.value)

\* query_raw: pending_query.wait() yields once the query left Sent
WaiterWake(id) ==
    /\ qpc[id] = "waiting"
    /\ queries[id].kind \in {"Answered", "Dropped"}
    /\ LET y == wait_yields(queries[id]) IN
       /\ qobserved' = [qobserved EXCEPT ![id] = Append(@, y.value)]
       /\ IF y.value # NoAnswer
          THEN /\ qresult' = [qresult EXCEPT ![id] = QueryRawAnswered(y)]
               /\ qpc' = [qpc EXCEPT ![id] = "returned"]
          ELSE /\ qpc' = [qpc EXCEPT ![id] = "dropped"]
               /\ UNCHANGED qresult
    /\ queries' = [queries EXCEPT ![id] = Absent]
    /\ UNCHANGED <<qtimer, qchannel, updLog, qanswers, qnow, qpeer, qchannels_by_peers,
                   qchannels_by_id, qdrop_timeout, qnext_channel>>
    /\ UNCHANGED notQ

\* AdnlPeer::reset: the ephemeral channel key is rotated
peer_reset(peer) == [peer EXCEPT !.channel_key = @ + 1]

\* query_raw: what it returns after the drop, given the outcome of reset_peer
QueryRawDroppedResult(reset_failed) ==
    IF reset_failed THEN Err("UnknownPeer") ELSE OkNone

\* query_raw after Ok(None): update_drop_timeout on the captured channel and,
\* if the previous deadline has passed, reset_peer
QueryRawDropped(id) ==
    /\ qpc[id] = "dropped"
    /\ LET c == qchannel[id]
           was == IF c = NoChannel THEN 0 ELSE qdrop_timeout[c]
           reset == c # NoChannel /\ DropTimeoutExpired(was, qnow)
       IN
       /\ qdrop_timeout' = IF c = NoChannel THEN qdrop_timeout
                           ELSE [qdrop_timeout EXCEPT ![c] = update_drop_timeout(was, qnow)]
       /\ IF reset /\ qpeer.present
          THEN /\ qchannels_by_id' = qchannels_by_id \ {qchannels_by_peers}
               /\ qchannels_by_peers' = NoChannel
               /\ qpeer' = peer_reset(qpeer)
          ELSE UNCHANGED <<qchannels_by_id, qchannels_by_peers, qpeer>>
       /\ qresult' = [qresult EXCEPT ![id] = QueryRawDroppedResult(reset /\ ~qpeer.present)]
    /\ qpc' = [qpc EXCEPT ![id] = "returned"]
    /\ UNCHANGED <<queries, qtimer, qchannel, qobserved, updLog, qanswers, qnow,
                   qnext_channel>>
    /\ UNCHANGED notQ

\* the wall clock advances
QTick ==
    /\ qnow < MaxTime
    /\ qnow' = qnow + 1
    /\ UNCHANGED <<queries, qpc, qtimer, qchannel, qresult, qobserved, updLog,
                   qanswers, qpeer, qchannels_by_peers, qchannels_by_id, qdrop_timeout,
                   qnext_channel>>
    /\ UNCHANGED notQ

\* a handler runs create_channel: a new channel object takes the place of the
\* peer's channel in both tables
QCreateChannel ==
    /\ qpeer.present
    /\ qnext_channel <= MaxChannels
    /\ qchannels_by_peers' = qnext_channel
    /\ qchannels_by_id' = (qchannels_by_id \ {qchannels_by_peers}) \cup {qnext_channel}
    /\ qnext_channel' = qnext_channel + 1
    /\ UNCHANGED <<queries, qpc, qtimer, qchannel, qresult, qobserved, updLog,
                   qanswers, qnow, qpeer, qdrop_timeout>>
    /\ UNCHANGED notQ

\* handle_received_data decrypts a packet on a channel: reset_drop_timeout
QChannelDecrypt(c) ==
    /\ c \in qchannels_by_id
    /\ qdrop_timeout[c] # 0
    /\ qdrop_timeout' = [qdrop_timeout EXCEPT ![c] = 0]
    /\ UNCHANGED <<queries, qpc, qtimer, qchannel, qresult, qobserved, updLog,
                   qanswers, qnow, qpeer, qchannels_by_peers, qchannels_by_id,
                   qnext_channel>>
    /\ UNCHANGED notQ

\* AdnlNode::delete_peer
QDeletePeer ==
    /\ qpeer.present
    /\ qpeer' = [qpeer EXCEPT !.present = FALSE]
    /\ UNCHANGED <<queries, qpc, qtimer, qchannel, qresult, qobserved, updLog,
                   qanswers, qnow, qchannels_by_peers, qchannels_by_id, qdrop_timeout,
                   qnext_channel>>
    /\ UNCHANGED notQ

QNext ==
    \/ \E id \in QueryIds : QueryRawStart(id)
    \/ \E id \in QueryIds : TimerFire(id)
    \/ \E id \in QueryIds, a \in Answers : ProcessMessageAnswer(id, a)
    \/ ProcessMessageAnswer(UnknownQueryId, "a1")
    \/ \E id \in QueryIds : WaiterWake(id)
    \/ \E id \in QueryIds : QueryRawDropped(id)
    \/ QTick
    \/ QCreateChannel
    \/ \E c \in ChannelObjects : QChannelDecrypt(c)
    \/ QDeletePeer

-----------------------------------------------------------------------------
(***************************************************************************)
(* send_message and send_packet (section 4.7 of the specification).        *)
(***************************************************************************)
MAX_ADNL_MESSAGE_SIZE == 1024
MSG_ANSWER_SIZE == 44
MSG_CONFIRM_CHANNEL_SIZE == 72
MSG_CREATE_CHANNEL_SIZE == 40
MSG_CUSTOM_SIZE == 12
MSG_NOP_SIZE == 4
MSG_QUERY_SIZE == 44
MSG_PART_PREFIX_SIZE == 40
MAX_PRIORITY_ATTEMPTS == 10

Senders == 1..MaxSenders
\* payload lengths of the Custom messages handed to send_message
PayloadLens == {1000, 3000}
\* the messages handed to send_message and the priority hint
SendInputs == ([kind : {"Custom"}, len : PayloadLens] \cup {[kind |-> "Nop", len |-> 0]})

Min(a, b) == IF a < b THEN a ELSE b
Pad4(n) == ((n + 3) \div 4) * 4
\* TL encoding of a byte string: a 1 or 4 byte length prefix, padded to 4 bytes
TlBytesLen(n) == IF n < 254 THEN Pad4(n + 1) ELSE Pad4(n + 4)

\* tl_proto::serialize(message).len(): constructor id, fields
SerializedLen(m) ==
    CASE m.kind = "Custom" -> 4 + TlBytesLen(m.len)
      [] m.kind \in {"Query", "Answer"} -> 4 + 32 + TlBytesLen(m.len)
      [] OTHER -> 4

\* send_message: the size it computes for the message
MessageSize(m) ==
    CASE m.kind = "Answer" -> m.len + MSG_ANSWER_SIZE
      [] m.kind = "ConfirmChannel" -> MSG_CONFIRM_CHANNEL_SIZE
      [] m.kind = "Custom" -> m.len + MSG_CUSTOM_SIZE
      [] m.kind = "Nop" -> MSG_NOP_SIZE
      [] m.kind = "Query" -> m.len + MSG_QUERY_SIZE

\* send_message: the additional message for the state of the peer's channel
AdditionalMessage(channel) ==
    CASE channel = "ready" -> "None"
      [] channel = "notready" -> "ConfirmChannel"
      [] channel = "none" -> "CreateChannel"

AdditionalSize(additional) ==
    CASE additional = "None" -> 0
      [] additional = "ConfirmChannel" -> MSG_CONFIRM_CHANNEL_SIZE
      [] additional = "CreateChannel" -> MSG_CREATE_CHANNEL_SIZE

\* send_message: force_handshake is set for a channel that is not ready
ForceHandshake(channel) == channel = "notready"

\* a signer choice that forgets force_handshake
SignerIgnoresForce(channel) ==
    IF channel # "none" THEN "Channel" ELSE "Random"

\* send_message: the signer, MessageSigner::Channel or MessageSigner::Random
Signer(channel) ==
    IF channel # "none" /\ ~ForceHandshake(channel) THEN "Channel" ELSE "Random"

\* a message of a packet
Message(kind, hash, total_size, offset, len) ==
    [kind |-> kind, hash |-> hash, total_size |-> total_size,
     offset |-> offset, len |-> len]
PlainMessage(kind, len) == Message(kind, 0, 0, 0, len)

\* build_part_message: the Part cut at *offset, and the new value of *offset
build_part_message(data_len, hash, max_size, offset) ==
    LET len == Min(data_len, offset + max_size) IN
    [part |-> Message("Part", hash, data_len, offset,
                      IF offset < len THEN len - offset ELSE 0),
     offset |-> offset + len]

\* a demotion test that counts the attempts from MAX_PRIORITY_ATTEMPTS on
SendPacketPriorityFromTen(signer, priority) ==
    IF signer = "Channel"
    THEN IF s_receiver_seqno[priority] = 0
            /\ s_sender_seqno[TRUE] >= MAX_PRIORITY_ATTEMPTS
         THEN FALSE
         ELSE priority
    ELSE FALSE

\* send_packet: the priority class the packet goes out on
SendPacketPriority(signer, priority) ==
    IF signer = "Channel"
    THEN IF s_receiver_seqno[priority] = 0
            /\ s_sender_seqno[TRUE] > MAX_PRIORITY_ATTEMPTS
         THEN FALSE
         ELSE priority
    ELSE FALSE

\* PacketsHistory::bump_seqno: atomically, the next seqno
bump_seqno(seqno) == seqno + 1

\* a send_packet that reads the seqno where it should bump it
SendPacketSeqnoRead(priority) == s_sender_seqno[priority]

\* send_packet: the seqno it puts in the packet and leaves in the history
SendPacketSeqno(priority) == bump_seqno(s_sender_seqno[priority])

\* send_packet: the packet contents it builds and encrypts
SendPacketContents(signer, priority, messages) ==
    LET p == SendPacketPriority(signer, priority) IN
    [framing |-> IF signer = "Channel" THEN "channel" ELSE "handshake",
     priority |-> p,
     from |-> signer = "Random",
     reinit_dates |-> signer = "Random",
     signature |-> signer = "Random",
     seqno |-> SendPacketSeqno(p),
     confirm_seqno |-> s_receiver_seqno[p],
     messages |-> messages]

IdleCall ==
    [pc |-> "idle", msg |-> [kind |-> "Nop", len |-> 0], priority |-> FALSE,
     at_check |-> "none", signer |-> "Random", additional |-> "None",
     split |-> FALSE, hash |-> 0, data_len |-> 0, offset |-> 0, packets |-> <<>>,
     after |-> "idle"]

\* the send subsystem before any send_message call
SStart ==
    /\ s_channel = "none"
    /\ s_sender_seqno = [p \in BOOLEAN |-> 0]
    /\ s_receiver_seqno = [p \in BOOLEAN |-> 0]
    /\ s_call = [s \in Senders |-> IdleCall]
    /\ s_calls = 0
    /\ s_issued = [p \in BOOLEAN |-> <<>>]
    /\ s_queue = <<>>

\* send_packet on behalf of task s, up to the built packet: the sender history
\* of its class is bumped; call is the task's send_message call afterwards
SendPacket(s, call, messages) ==
    LET packet == SendPacketContents(call.signer, call.priority, messages) IN
    /\ s_sender_seqno' = [s_sender_seqno EXCEPT ![packet.priority] = packet.seqno]
    /\ s_issued' = [s_issued EXCEPT ![packet.priority] = Append(@, packet.seqno)]
    /\ s_call' = [s_call EXCEPT ![s] =
                     [call EXCEPT !.packets = Append(@, packet),
                                  !.after = call.pc, !.pc = "queue"]]
    /\ UNCHANGED s_queue

\* send_packet: the built packet is handed to sender_queue_tx
SendPacketQueue(s) ==
    /\ s_call[s].pc = "queue"
    /\ LET packet == s_call[s].packets[Len(s_call[s].packets)] IN
       s_queue' = Append(s_queue, <<packet.priority, packet.seqno>>)
    /\ s_call' = [s_call EXCEPT ![s].pc = s_call[s].after]
    /\ UNCHANGED <<s_channel, s_sender_seqno, s_receiver_seqno, s_calls, s_issued>>
    /\ UNCHANGED notS

\* send_message up to and including its first send_packet
send_message(s, m, priority) ==
    /\ s_call[s].pc = "idle"
    /\ s_calls < MaxSendCalls
    /\ s_calls' = s_calls + 1
    /\ LET additional == AdditionalMessage(s_channel)
           size == AdditionalSize(additional) + MessageSize(m)
           real == PlainMessage(m.kind, m.len)
           \* MessageSigner::Channel carries the priority, MessageSigner::Random none
           head == [IdleCall EXCEPT !.msg = m,
                                    !.priority = (Signer(s_channel) = "Channel"
                                                  /\ priority),
                                    !.at_check = s_channel,
                                    !.signer = Signer(s_channel),
                                    !.additional = additional,
                                    !.hash = s_calls + 1]
           data_len == SerializedLen(m)
           first == build_part_message(
                        data_len, head.hash,
                        MAX_ADNL_MESSAGE_SIZE - MSG_PART_PREFIX_SIZE
                            - AdditionalSize(additional), 0)
           split == [head EXCEPT !.split = TRUE, !.data_len = data_len]
       IN
       IF size <= MAX_ADNL_MESSAGE_SIZE
       THEN SendPacket(s, head,
                IF additional = "None" THEN <<real>>
                ELSE <<PlainMessage(additional, 0), real>>)
       ELSE IF additional # "None"
            THEN SendPacket(s,
                     [split EXCEPT !.offset = first.offset,
                                   !.pc = IF first.offset < data_len
                                          THEN "parts" ELSE "idle"],
                     <<PlainMessage(additional, 0), first.part>>)
            ELSE /\ s_call' = [s_call EXCEPT ![s] = [split EXCEPT !.pc = "parts"]]
                 /\ UNCHANGED <<s_sender_seqno, s_issued, s_queue>>
    /\ UNCHANGED <<s_channel, s_receiver_seqno>>

\* a task calls send_message
SendMessageStart(s, m, priority) ==
    /\ send_message(s, m, priority)
    /\ UNCHANGED notS

\* send_message: one turn of its `while offset < data.len()` loop
SendMessagePart(s) ==
    /\ s_call[s].pc = "parts"
    /\ LET call == s_call[s]
           next == build_part_message(call.data_len, call.hash,
                                      MAX_ADNL_MESSAGE_SIZE, call.offset)
       IN SendPacket(s,
              [call EXCEPT !.offset = next.offset,
                           !.pc = IF next.offset < call.data_len
                                  THEN "parts" ELSE "idle"],
              <<next.part>>)
    /\ UNCHANGED <<s_channel, s_receiver_seqno, s_calls>>
    /\ UNCHANGED notS

\* no send_message call holds its guards on the peer and on channels_by_peers
NoSendInProgress == \A s \in Senders : s_call[s].pc = "idle"

\* a handler runs create_channel for a peer without a channel
SCreateChannel ==
    /\ s_channel = "none"
    /\ s_channel' = "notready"
    /\ UNCHANGED <<s_sender_seqno, s_receiver_seqno, s_call, s_calls, s_issued, s_queue>>
    /\ UNCHANGED notS

\* AdnlChannel::set_ready, after a decrypt or a matching ConfirmChannel
SSetReady ==
    /\ s_channel = "notready"
    /\ s_channel' = "ready"
    /\ UNCHANGED <<s_sender_seqno, s_receiver_seqno, s_call, s_calls, s_issued, s_queue>>
    /\ UNCHANGED notS

\* reset_peer removes the channel of the peer
SResetPeer ==
    /\ s_channel # "none"
    /\ NoSendInProgress
    /\ s_channel' = "none"
    /\ UNCHANGED <<s_sender_seqno, s_receiver_seqno, s_call, s_calls, s_issued, s_queue>>
    /\ UNCHANGED notS

\* check_packet accepts the first packet of a priority class
SReceive(priority) ==
    /\ s_receiver_seqno[priority] = 0
    /\ s_receiver_seqno' = [s_receiver_seqno EXCEPT ![priority] = 1]
    /\ UNCHANGED <<s_channel, s_sender_seqno, s_call, s_calls, s_issued, s_queue>>
    /\ UNCHANGED notS

SNext ==
    \/ \E s \in Senders, m \in SendInputs, priority \in BOOLEAN :
           SendMessageStart(s, m, priority)
    \/ \E s \in Senders : SendMessagePart(s)
    \/ \E s \in Senders : SendPacketQueue(s)
    \/ SCreateChannel
    \/ SSetReady
    \/ SResetPeer
    \/ \E priority \in BOOLEAN : SReceive(priority)

\* the answers of the subscribers: short, and longer than two parts
AnswerLens == {100, 3000}
\* process_message_adnl_query: what the subscribers make of a query
ProcessingResults == {"ProcessedSome", "ProcessedNone", "Rejected"}

IdleQuery == [state |-> "idle", query_id |-> 0, priority |-> FALSE,
              result |-> "none", returned |-> "none"]

AStart ==
    /\ a_query = [s \in Senders |-> IdleQuery]
    /\ a_peer = TRUE

\* process_message gets a Query; one that came on the priority channel was
\* decrypted on a channel that this made ready
QueryArrives(s, query_id, priority) ==
    /\ a_query[s].state = "idle"
    /\ a_peer
    /\ priority => s_channel = "ready"
    /\ a_query' = [a_query EXCEPT ![s] =
           [IdleQuery EXCEPT !.state = "waiting", !.query_id = query_id,
                             !.priority = priority]]
    /\ UNCHANGED a_peer
    /\ UNCHANGED notA

\* process_message, the Query arm after process_message_adnl_query returned:
\* an answer goes to send_message, whose result is returned
ProcessQuery(s, result, len) ==
    /\ a_query[s].state = "waiting"
    /\ UNCHANGED a_peer
    /\ IF result = "ProcessedSome" /\ a_peer
       THEN /\ send_message(s, [kind |-> "Answer", len |-> len], a_query[s].priority)
            /\ a_query' = [a_query EXCEPT ![s].state = "done",
                                          ![s].result = result,
                                          ![s].returned = "Ok"]
       ELSE /\ a_query' = [a_query EXCEPT
                   ![s].state = "done",
                   ![s].result = result,
                   ![s].returned =
                       CASE result = "ProcessedSome" -> "UnknownPeer"
                         [] result = "ProcessedNone" -> "Ok"
                         [] result = "Rejected" -> "NoSubscribersForQuery"]
            /\ UNCHANGED svars
    /\ UNCHANGED notSA

\* delete_peer removes the sending peer
ADeletePeer ==
    /\ a_peer
    /\ a_peer' = FALSE
    /\ UNCHANGED a_query
    /\ UNCHANGED notA

ANext ==
    \/ \E s \in Senders, query_id \in QueryIds, priority \in BOOLEAN :
           QueryArrives(s, query_id, priority)
    \/ \E s \in Senders, result \in ProcessingResults, len \in AnswerLens :
           ProcessQuery(s, result, len)
    \/ \E s \in Senders : SendMessagePart(s)
    \/ \E s \in Senders : SendPacketQueue(s)
    \/ SCreateChannel
    \/ SSetReady
    \/ SResetPeer
    \/ ADeletePeer

\* the priority packets sent before the demotion scenario starts
SentBefore == MAX_PRIORITY_ATTEMPTS - 1

\* the send subsystem after SentBefore priority packets went out on a ready
\* channel, one per send_message call, and nothing came back
DStart ==
    /\ s_channel = "ready"
    /\ s_sender_seqno = [p \in BOOLEAN |-> IF p THEN SentBefore ELSE 0]
    /\ s_receiver_seqno = [p \in BOOLEAN |-> 0]
    /\ s_call = [s \in Senders |-> IdleCall]
    /\ s_calls = 0
    /\ s_issued = [p \in BOOLEAN |-> IF p THEN [i \in 1..SentBefore |-> i] ELSE <<>>]
    /\ s_queue = [i \in 1..SentBefore |-> <<TRUE, i>>]

\* check_packet on a handshake packet of a restarted peer: try_reinit with a
\* later reinit date starts the histories of the peer afresh; the scenario
\* has the peer restart while the sends to it are demoted
SReinit ==
    /\ s_sender_seqno[TRUE] > MAX_PRIORITY_ATTEMPTS
    /\ s_sender_seqno' = [p \in BOOLEAN |-> 0]
    /\ s_receiver_seqno' = [p \in BOOLEAN |-> 0]
    /\ s_issued' = [p \in BOOLEAN |-> <<>>]
    /\ UNCHANGED <<s_channel, s_call, s_calls, s_queue>>
    /\ UNCHANGED notS

DNext ==
    \/ SNext
    \/ SReinit

-----------------------------------------------------------------------------
(***************************************************************************)
(* process_message on Part messages: the transfer table (section 4.6).     *)
(* The Parts are fragments of one body, so they share the hash that keys   *)
(* incoming_transfers and none of them fails the hash or the size check.   *)
(***************************************************************************)
Handlers == 1..MaxHandlers
NoTransfer == 0
TransferObjects == 1..MaxTransfers
Body == 1..BodyLen
\* the Parts of the body: every interval [lo, hi] of its units
Fragments == {lo..hi : <<lo, hi>> \in {<<a, b>> \in Body \X Body : a <= b}}

\* Transfer::add_part: the units received after the part
add_part_covered(covered, fragment) == covered \cup fragment

\* Transfer::add_part: Ok(Some(body)) when this part completes [0, total_size)
add_part_yields(covered, fragment) ==
    /\ covered # Body
    /\ add_part_covered(covered, fragment) = Body

\* a Part whose bytes lie outside [0, total_size)
OutOfRange == {BodyLen + 1}
\* what a completed buffer turns out to be: a message of another kind, a
\* Part, or bytes whose hash is not the transfer id
Decoded == {"Custom", "Part", "HashMismatch"}

\* Transfer::add_part: Err for a part outside the buffer
add_part_fails(fragment) == ~(fragment \subseteq Body)

\* process_message: incoming_transfers.remove(&transfer_id) on a completed body
CompletedRemovesEntry(entry) == NoTransfer

\* a process_message that leaves the entry in the table when add_part fails
ErrorKeepsEntry(entry) == entry

\* process_message: incoming_transfers.remove(&transfer_id) when add_part fails
ErrorRemovesEntry(entry) == NoTransfer

\* a process_message that handles a reassembled Part like a received one
ProcessDecodedRecursive(decoded) == "dispatched"

\* process_message on the reassembled message: a Part has no arm of its own
ProcessDecoded(decoded) ==
    IF decoded = "Part" THEN "UnknownMessage" ELSE "dispatched"

\* a janitor that never finds its transfer expired
IsNeverExpired(fresh) == FALSE

\* TransferTimings::is_expired(transfer_timeout)
is_expired(fresh) == ~fresh

IdleHandler == [pc |-> "idle", fragment |-> {}, transfer |-> NoTransfer]

TStart ==
    /\ incoming_transfers = NoTransfer
    /\ t_covered = [o \in TransferObjects |-> {}]
    /\ t_janitor = {}
    /\ t_handler = [h \in Handlers |-> IdleHandler]
    /\ t_arrivals = 0
    /\ t_arrived = {}
    /\ t_dispatched = 0
    /\ t_expired = FALSE
    /\ t_fresh = {}
    /\ t_last = [result |-> "none", decoded |-> "none", transfer |-> NoTransfer,
                 entry |-> NoTransfer, dispatched |-> FALSE]

\* the Transfer objects some task or the table still refers to
LiveTransfers ==
    {o \in TransferObjects :
        \/ o \in t_janitor
        \/ t_covered[o] # {}
        \/ \E h \in Handlers : t_handler[h].transfer = o}

\* the Transfer object Transfer::new makes (none left: outside TransferObjects)
NewTransfer ==
    IF TransferObjects \ LiveTransfers = {} THEN MaxTransfers + 1
    ELSE CHOOSE o \in TransferObjects \ LiveTransfers :
             \A other \in TransferObjects \ LiveTransfers : o <= other

\* process_message on a Part, up to the transfer it works on: the entry of the
\* hash is looked up and, if vacant, filled with a new Transfer and its janitor;
\* the timings of the transfer are refreshed
ProcessPartEntry(h, fragment) ==
    /\ t_handler[h].pc = "idle"
    /\ t_arrivals < MaxArrivals
    /\ t_arrivals' = t_arrivals + 1
    /\ t_arrived' = t_arrived \cup (fragment \cap Body)
    /\ IF incoming_transfers = NoTransfer
       THEN /\ NewTransfer \in TransferObjects
            /\ incoming_transfers' = NewTransfer
            /\ t_janitor' = t_janitor \cup {NewTransfer}
            /\ t_fresh' = t_fresh \cup {NewTransfer}
            /\ t_handler' = [t_handler EXCEPT ![h] =
                   [pc |-> "add_part", fragment |-> fragment, transfer |-> NewTransfer]]
       ELSE /\ t_handler' = [t_handler EXCEPT ![h] =
                   [pc |-> "add_part", fragment |-> fragment,
                    transfer |-> incoming_transfers]]
            /\ t_fresh' = t_fresh \cup {incoming_transfers}
            /\ UNCHANGED <<incoming_transfers, t_janitor>>
    /\ UNCHANGED <<t_covered, t_dispatched, t_expired, t_last>>
    /\ UNCHANGED notT

\* process_message on a Part, from add_part on: a failed add_part removes the
\* entry and returns the error; a completed body is removed from the table,
\* decoded and dispatched
ProcessPartAdd(h, decoded) ==
    /\ t_handler[h].pc = "add_part"
    /\ LET o == t_handler[h].transfer
           fragment == t_handler[h].fragment
           failed == add_part_fails(fragment)
           completed == ~failed /\ add_part_yields(t_covered[o], fragment)
           result ==
               IF failed THEN "OutOfRange"
               ELSE IF ~completed THEN "Ok"
               ELSE IF decoded = "HashMismatch" THEN "HashMismatch"
               ELSE IF ProcessDecoded(decoded) = "dispatched" THEN "Ok"
               ELSE ProcessDecoded(decoded)
           dispatched == /\ completed
                         /\ decoded # "HashMismatch"
                         /\ ProcessDecoded(decoded) = "dispatched"
       IN /\ ~completed => decoded = "Custom"
          /\ t_covered' = IF failed THEN t_covered
                          ELSE [t_covered EXCEPT ![o] = add_part_covered(@, fragment)]
          /\ incoming_transfers' =
                 IF failed \/ (completed /\ decoded = "HashMismatch")
                 THEN ErrorRemovesEntry(incoming_transfers)
                 ELSE IF completed THEN CompletedRemovesEntry(incoming_transfers)
                 ELSE incoming_transfers
          /\ t_dispatched' = IF dispatched THEN t_dispatched + 1 ELSE t_dispatched
          /\ t_last' = [result |-> result,
                        decoded |-> IF completed THEN decoded ELSE "none",
                        transfer |-> o,
                        entry |-> incoming_transfers',
                        dispatched |-> dispatched]
    /\ t_handler' = [t_handler EXCEPT ![h] = IdleHandler]
    /\ UNCHANGED <<t_janitor, t_arrivals, t_arrived, t_expired, t_fresh>>
    /\ UNCHANGED notT

\* transfer_timeout_sec pass: a transfer not refreshed from now on is expired
\* when its janitor wakes
TransferTimePasses ==
    /\ t_fresh # {}
    /\ t_fresh' = {}
    /\ UNCHANGED <<incoming_transfers, t_covered, t_janitor, t_handler, t_arrivals,
                   t_arrived, t_dispatched, t_expired, t_last>>
    /\ UNCHANGED notT

\* the janitor of a transfer wakes, finds it idle for transfer_timeout_sec,
\* removes the entry of its hash and ends
TransferJanitor(o) ==
    /\ o \in t_janitor
    /\ is_expired(o \in t_fresh)
    /\ t_janitor' = t_janitor \ {o}
    /\ t_expired' = (t_expired \/ incoming_transfers # NoTransfer)
    /\ incoming_transfers' = NoTransfer
    /\ UNCHANGED <<t_covered, t_handler, t_arrivals, t_arrived, t_dispatched,
                   t_fresh, t_last>>
    /\ UNCHANGED notT

TNext ==
    \/ \E h \in Handlers, fragment \in Fragments \cup {OutOfRange} :
           ProcessPartEntry(h, fragment)
    \/ \E h \in Handlers, decoded \in Decoded : ProcessPartAdd(h, decoded)
    \/ TransferTimePasses
    \/ \E o \in TransferObjects : TransferJanitor(o)

\* the runtime runs every handler and every janitor, and time passes
TFairness ==
    /\ \A h \in Handlers : WF_vars(\E decoded \in Decoded : ProcessPartAdd(h, decoded))
    /\ WF_vars(TransferTimePasses)
    /\ \A o \in TransferObjects : WF_vars(TransferJanitor(o))

-----------------------------------------------------------------------------
(***************************************************************************)
(* check_packet: reinit dates, receiver history, confirm seqno (sections   *)
(* 4.3 and 4.4).  The packets are those of one known peer that pass the    *)
(* source resolution, the peer lookup and the signature check.             *)
(***************************************************************************)
\* self.start_time, the reinit date of this node
StartTime == 2
\* now() + options.clock_tolerance_sec
ClockLimit == StartTime + 1
ReinitDateValues == 0..(ClockLimit + 1)
Seqnos == 1..MaxSeqno

None == [some |-> FALSE, value |-> 0]
Some(v) == [some |-> TRUE, value |-> v]

\* the reinit dates a handshake packet carries: local (of the peer), target (ours)
PacketReinitDates ==
    [some : {TRUE}, local : {StartTime, StartTime + 1},
     target : {0, StartTime - 1, StartTime, StartTime + 1}]
    \cup [some : {TRUE}, local : {StartTime - 1, ClockLimit + 1}, target : {StartTime}]
NoReinitDates == [some |-> FALSE, local |-> 0, target |-> 0]

\* the packets handle_received_data decodes: handshake packets are of the
\* ordinary class, channel packets carry no reinit dates
IncomingPackets ==
    [framing : {"handshake"}, priority : {FALSE},
     seqno : {None} \cup {Some(v) : v \in Seqnos},
     confirm_seqno : {None, Some(1)},
     reinit_dates : PacketReinitDates]
    \cup
    [framing : {"channel"}, priority : BOOLEAN,
     seqno : {None} \cup {Some(v) : v \in Seqnos},
     confirm_seqno : {None, Some(1)},
     reinit_dates : {NoReinitDates}]

\* PacketsHistory::new
EmptyHistory == [max |-> 0, seen |-> {}]

\* PacketsHistory::deliver_packet: is the seqno accepted
deliver_packet(history, seqno) ==
    \/ seqno > history.max
    \/ /\ seqno > history.max - HistoryWindow
       /\ seqno \notin history.seen

\* PacketsHistory::deliver_packet: the history afterwards
delivered_history(history, seqno) ==
    IF ~deliver_packet(history, seqno) THEN history
    ELSE LET max == IF seqno > history.max THEN seqno ELSE history.max IN
         [max |-> max,
          seen |-> {v \in history.seen \cup {seqno} : v > max - HistoryWindow}]

\* AdnlPeer::try_reinit: does it succeed
try_reinit(current, reinit_date) == reinit_date >= current

\* what send_message returns for the Nop: Ok, UnknownPeer when delete_peer
\* removed the peer after check_packet dropped its reference, or
\* FailedToSendPacket when the sender loop is gone
SendOutcomes == {"Ok", "UnknownPeer", "FailedToSendPacket"}

\* a check_packet that looks at the peer's reinit date first
CheckReinitDatesSourceFirst(packet) ==
    IF ~packet.reinit_dates.some THEN "ok"
    ELSE IF packet.reinit_dates.local > ClockLimit THEN "SrcReinitDateTooNew"
    ELSE IF packet.reinit_dates.target > StartTime THEN "DstReinitDateTooNew"
    ELSE IF ~try_reinit(r_peer_reinit, packet.reinit_dates.local)
         THEN "SrcReinitDateTooOld"
    ELSE IF packet.reinit_dates.target # 0 /\ packet.reinit_dates.target < StartTime
         THEN "DstReinitDateTooOld"
    ELSE "ok"

\* check_packet, the reinit dates: the error it returns, or "ok"
CheckReinitDates(packet) ==
    IF ~packet.reinit_dates.some THEN "ok"
    ELSE IF packet.reinit_dates.target > StartTime THEN "DstReinitDateTooNew"
    ELSE IF packet.reinit_dates.local > ClockLimit THEN "SrcReinitDateTooNew"
    ELSE IF ~try_reinit(r_peer_reinit, packet.reinit_dates.local)
         THEN "SrcReinitDateTooOld"
    ELSE IF packet.reinit_dates.target # 0 /\ packet.reinit_dates.target < StartTime
         THEN "DstReinitDateTooOld"
    ELSE "ok"

\* check_packet: try_reinit was called and found a newer reinit date
Reinitialized(packet) ==
    /\ CheckReinitDates(packet) \in {"ok", "DstReinitDateTooOld"}
    /\ packet.reinit_dates.some
    /\ packet.reinit_dates.local > r_peer_reinit

\* check_packet: is deliver_packet called for the packet
HistoryConsulted(packet) == r_enabled /\ packet.seqno.some

\* a check_packet that goes on after deliver_packet refused the seqno
CheckPacketIgnoresHistory(reinit, consulted, delivered, confirm_too_new) ==
    IF reinit # "ok" THEN reinit
    ELSE IF confirm_too_new THEN "ConfirmationSeqnoTooNew"
    ELSE "Some"

\* check_packet: what it returns, Some(peer_id), None or the error
CheckPacketResult(reinit, consulted, delivered, confirm_too_new) ==
    IF reinit # "ok" THEN reinit
    ELSE IF consulted /\ ~delivered THEN "None"
    ELSE IF confirm_too_new THEN "ConfirmationSeqnoTooNew"
    ELSE "Some"

RStart ==
    /\ r_enabled \in BOOLEAN
    /\ r_history = [p \in BOOLEAN |-> EmptyHistory]
    /\ r_sender_seqno = [p \in BOOLEAN |-> 0]
    /\ r_peer_reinit = StartTime
    /\ r_accepted = [k \in ReinitDateValues \X BOOLEAN \X Seqnos |-> 0]
    /\ r_sent = [p \in BOOLEAN |-> 0]
    /\ r_packets = 0
    /\ r_last = [priority |-> FALSE, seqno |-> None,
                 consulted |-> FALSE, delivered |-> FALSE,
                 before |-> EmptyHistory, result |-> "none", dispatched |-> FALSE,
                 nop |-> "none"]

\* handle_received_data from check_packet on: the packet is validated and, if
\* check_packet returns Some(peer_id), its messages are dispatched
HandleReceivedData(packet, sent) ==
    /\ r_packets < MaxPackets
    /\ CheckReinitDates(packet) # "DstReinitDateTooOld" => sent = "Ok"
    /\ r_packets' = r_packets + 1
    /\ LET reinit == CheckReinitDates(packet)
           reset == Reinitialized(packet)
           \* the histories after the reinit dates were handled
           history == IF reset THEN EmptyHistory ELSE r_history[packet.priority]
           sender_seqno == IF reset THEN 0 ELSE r_sender_seqno[packet.priority]
           epoch == IF reset THEN packet.reinit_dates.local ELSE r_peer_reinit
           consulted == reinit = "ok" /\ HistoryConsulted(packet)
           delivered == consulted /\ deliver_packet(history, packet.seqno.value)
           \* DstReinitDateTooOld: send_message(.., Nop, false)? comes first
           nop == IF reinit = "DstReinitDateTooOld" THEN sent ELSE "none"
           built == nop \in {"Ok", "FailedToSendPacket"}
           result ==
               IF nop \in {"UnknownPeer", "FailedToSendPacket"} THEN nop
               ELSE CheckPacketResult(reinit, consulted, delivered,
                                      /\ packet.confirm_seqno.some
                                      /\ packet.confirm_seqno.value > sender_seqno)
       IN
       /\ r_peer_reinit' = epoch
       /\ r_history' =
              [p \in BOOLEAN |->
                  IF p = packet.priority
                  THEN IF consulted
                       THEN delivered_history(history, packet.seqno.value)
                       ELSE history
                  ELSE IF reset THEN EmptyHistory ELSE r_history[p]]
       \* the Nop is a packet of the ordinary class
       /\ r_sender_seqno' =
              [p \in BOOLEAN |->
                  (IF reset THEN 0 ELSE r_sender_seqno[p])
                      + (IF built /\ ~p THEN 1 ELSE 0)]
       /\ r_sent' =
              [p \in BOOLEAN |->
                  (IF reset THEN 0 ELSE r_sent[p]) + (IF built /\ ~p THEN 1 ELSE 0)]
       /\ r_accepted' =
              IF result = "Some" /\ packet.seqno.some
              THEN [r_accepted EXCEPT
                       ![<<epoch, packet.priority, packet.seqno.value>>] = @ + 1]
              ELSE r_accepted
       /\ r_last' = [priority |-> packet.priority, seqno |-> packet.seqno,
                     consulted |-> consulted,
                     delivered |-> delivered, before |-> history,
                     result |-> result, dispatched |-> (result = "Some"),
                     nop |-> nop]
    /\ UNCHANGED r_enabled
    /\ UNCHANGED notR

\* send_packet towards the peer: the sender history of the class is bumped
RSendPacket(priority) ==
    /\ r_sent[priority] < MaxSends
    /\ r_sender_seqno' = [r_sender_seqno EXCEPT ![priority] = bump_seqno(@)]
    /\ r_sent' = [r_sent EXCEPT ![priority] = @ + 1]
    /\ UNCHANGED <<r_enabled, r_history, r_peer_reinit, r_accepted, r_packets, r_last>>
    /\ UNCHANGED notR

\* packets that differ in their reinit dates only
ReinitPackets ==
    [framing : {"handshake"}, priority : {FALSE}, seqno : {None, Some(1)},
     confirm_seqno : {None},
     reinit_dates :
         [some : {TRUE},
          local : {StartTime - 1, StartTime, StartTime + 1, ClockLimit + 1},
          target : {0, StartTime - 1, StartTime, StartTime + 1}]]

ReinitNext ==
    \/ \E packet \in ReinitPackets, sent \in SendOutcomes :
           HandleReceivedData(packet, sent)
    \/ \E priority \in BOOLEAN : RSendPacket(priority)

RNext ==
    \/ \E packet \in IncomingPackets, sent \in SendOutcomes :
           HandleReceivedData(packet, sent)
    \/ \E priority \in BOOLEAN : RSendPacket(priority)

-----------------------------------------------------------------------------
(***************************************************************************)
(* create_channel, reset_peer and the channel lookup of the packet         *)
(* handlers, one table operation per step (section 4.2).                   *)
(***************************************************************************)
Tasks == 1..MaxTasks
Observers == 1..MaxObservers
NoTask == 0
ChannelIds == 1..MaxChannelObjects
Classes == {"ordinary", "priority"}
\* the peer_channel_public_key and peer_channel_date of a CreateChannel or
\* ConfirmChannel, and what a channel object nothing refers to stores
ChannelKeys == {"k1", "k2"}
Dates == 1..MaxDate
NoParams == <<"none", 0>>
Contexts == {"CreateChannel", "ConfirmChannel"}
\* no create_channel call yet, or the last one did not match the channel
NoCall == [context |-> "none", result |-> "none", tables_unchanged |-> TRUE,
           was_ready |-> FALSE, ready |-> FALSE, others_unchanged |-> TRUE]

IdleTask == [pc |-> "idle", new |-> NoChannel, old |-> NoChannel]
IdleObserver == [pc |-> "idle", found |-> NoChannel, by_peers |-> NoChannel,
                 result |-> "none"]

CStart ==
    /\ channels_by_peers = NoChannel
    /\ channels_by_id = {}
    /\ c_ready = {}
    /\ c_params = [c \in ChannelIds |-> NoParams]
    /\ c_peer = TRUE
    /\ c_last = NoCall
    /\ c_entry_lock = NoTask
    /\ c_task = [t \in Tasks |-> IdleTask]
    /\ c_handler = [h \in Observers |-> IdleObserver]

\* the channel objects a table or a task refers to
ChannelsInUse ==
    {c \in ChannelIds :
        \/ channels_by_peers = c
        \/ \E class \in Classes : <<c, class>> \in channels_by_id
        \/ \E t \in Tasks : c \in {c_task[t].new, c_task[t].old}
        \/ \E h \in Observers : c_handler[h].found = c}

\* AdnlChannel::new: a channel object nothing refers to
FreshChannels == ChannelIds \ ChannelsInUse

\* the last Arc of a channel object goes: the object is dropped, and nothing
\* of it is left
DropUnused ==
    /\ c_params' = [c \in ChannelIds |->
                       IF c \in ChannelsInUse' THEN c_params[c] ELSE NoParams]
    /\ c_ready' = c_ready \cap ChannelsInUse'

\* reset_peer holds the peer entry exclusively, create_channel shares it
PeerHeldShared == \E t \in Tasks : c_task[t].pc \in {"rm_old_ord", "rm_old_pri",
                                                     "ins_ord", "ins_pri"}
PeerHeldExclusive == \E t \in Tasks : c_task[t].pc \in {"reset_ord", "reset_pri"}

\* AdnlChannel::is_still_valid of the channel object: same peer key, same date
StillValid(channel, key, date) == c_params[channel] = <<key, date>>

\* create_channel, lines 1172-1174: only a ConfirmChannel makes the still
\* valid channel ready
AnyContextSetsReady(ready, channel, context) == ready \cup {channel}
ConfirmSetsReady(ready, channel, context) ==
    IF context = "ConfirmChannel" THEN ready \cup {channel} ELSE ready

\* AdnlChannel::new: the new channel object is not ready, whatever the context
ChannelNew(ready, new, context) == ready \ {new}

\* what a create_channel call whose (key, date) are those of the peer's
\* current channel returned and did
MatchingCall(key, date, context, result) ==
    IF channels_by_peers # NoChannel /\ StillValid(channels_by_peers, key, date)
    THEN [context |-> context, result |-> result,
          tables_unchanged |-> /\ channels_by_peers' = channels_by_peers
                               /\ channels_by_id' = channels_by_id
                               /\ c_params' = c_params,
          was_ready |-> channels_by_peers \in c_ready,
          ready |-> channels_by_peers \in c_ready',
          others_unchanged |-> c_ready' \ {channels_by_peers}
                                   = c_ready \ {channels_by_peers}]
    ELSE NoCall

\* create_channel up to the channels_by_peers entry: an unknown peer ends it
\* with UnknownPeerInChannel; a still valid channel is kept (and made ready by
\* a ConfirmChannel); otherwise the new channel is put into the entry
CreateChannelEntry(t, key, date, context) ==
    /\ c_task[t].pc = "idle"
    /\ ~PeerHeldExclusive
    /\ IF ~c_peer
       THEN /\ UNCHANGED <<channels_by_peers, c_ready, c_params, c_entry_lock, c_task>>
       ELSE /\ c_entry_lock = NoTask
            /\ IF channels_by_peers # NoChannel
               THEN IF StillValid(channels_by_peers, key, date)
                    THEN /\ c_ready' =
                               ConfirmSetsReady(c_ready, channels_by_peers, context)
                         /\ UNCHANGED <<channels_by_peers, c_params, c_entry_lock,
                                        c_task>>
                    ELSE \E new \in FreshChannels :
                         /\ channels_by_peers' = new
                         /\ c_params' = [c_params EXCEPT ![new] = <<key, date>>]
                         /\ c_ready' = ChannelNew(c_ready, new, context)
                         /\ c_entry_lock' = t
                         /\ c_task' = [c_task EXCEPT ![t] =
                                [pc |-> "rm_old_ord", new |-> new,
                                 old |-> channels_by_peers]]
               ELSE \E new \in FreshChannels :
                    /\ channels_by_peers' = new
                    /\ c_params' = [c_params EXCEPT ![new] = <<key, date>>]
                    /\ c_ready' = ChannelNew(c_ready, new, context)
                    /\ c_task' = [c_task EXCEPT ![t] =
                           [pc |-> "ins_ord", new |-> new, old |-> NoChannel]]
                    /\ UNCHANGED c_entry_lock
    /\ UNCHANGED <<channels_by_id, c_peer, c_handler>>
    /\ c_last' = MatchingCall(key, date, context,
                              IF c_peer THEN "Ok" ELSE "UnknownPeerInChannel")
    /\ UNCHANGED notC

\* create_channel: channels_by_id.remove(old_channel.ordinary_channel_in_id())
CreateChannelRemoveOrdinary(t) ==
    /\ UNCHANGED <<c_params, c_peer, c_last>>
    /\ c_task[t].pc = "rm_old_ord"
    /\ channels_by_id' = channels_by_id \ {<<c_task[t].old, "ordinary">>}
    /\ c_task' = [c_task EXCEPT ![t].pc = "rm_old_pri"]
    /\ UNCHANGED <<channels_by_peers, c_ready, c_entry_lock, c_handler>>
    /\ UNCHANGED notC

\* create_channel: channels_by_id.remove(old_channel.priority_channel_in_id())
CreateChannelRemovePriority(t) ==
    /\ UNCHANGED <<c_params, c_peer, c_last>>
    /\ c_task[t].pc = "rm_old_pri"
    /\ channels_by_id' = channels_by_id \ {<<c_task[t].old, "priority">>}
    /\ c_task' = [c_task EXCEPT ![t].pc = "ins_ord"]
    /\ UNCHANGED <<channels_by_peers, c_ready, c_entry_lock, c_handler>>
    /\ UNCHANGED notC

\* create_channel: channels_by_id.insert(ordinary in-id of the new channel)
CreateChannelInsertOrdinary(t) ==
    /\ UNCHANGED <<c_params, c_peer, c_last>>
    /\ c_task[t].pc = "ins_ord"
    /\ channels_by_id' = channels_by_id \cup {<<c_task[t].new, "ordinary">>}
    /\ c_task' = [c_task EXCEPT ![t].pc = "ins_pri"]
    /\ UNCHANGED <<channels_by_peers, c_ready, c_entry_lock, c_handler>>
    /\ UNCHANGED notC

\* create_channel: channels_by_id.insert(priority in-id of the new channel), and
\* the end of the function, where the entry is released
CreateChannelInsertPriority(t) ==
    /\ UNCHANGED <<c_peer, c_last>>
    /\ c_task[t].pc = "ins_pri"
    /\ channels_by_id' = channels_by_id \cup {<<c_task[t].new, "priority">>}
    /\ c_task' = [c_task EXCEPT ![t] = IdleTask]
    /\ c_entry_lock' = IF c_entry_lock = t THEN NoTask ELSE c_entry_lock
    /\ UNCHANGED <<channels_by_peers, c_handler>>
    /\ DropUnused
    /\ UNCHANGED notC

\* reset_peer: peers.get_mut, which ends it with UnknownPeer for an unknown
\* peer, and channels_by_peers.remove(peer_id)
ResetPeerRemove(t) ==
    /\ UNCHANGED <<c_params, c_peer, c_last>>
    /\ c_task[t].pc = "idle"
    /\ ~PeerHeldExclusive
    /\ ~PeerHeldShared
    /\ c_entry_lock = NoTask
    /\ IF ~c_peer \/ channels_by_peers = NoChannel
       THEN UNCHANGED <<channels_by_peers, c_task>>
       ELSE /\ channels_by_peers' = NoChannel
            /\ c_task' = [c_task EXCEPT ![t] =
                   [pc |-> "reset_ord", new |-> NoChannel, old |-> channels_by_peers]]
    /\ UNCHANGED <<channels_by_id, c_ready, c_entry_lock, c_handler>>
    /\ UNCHANGED notC

\* reset_peer: channels_by_id.remove(removed.ordinary_channel_in_id())
ResetPeerRemoveOrdinary(t) ==
    /\ UNCHANGED <<c_params, c_peer, c_last>>
    /\ c_task[t].pc = "reset_ord"
    /\ channels_by_id' = channels_by_id \ {<<c_task[t].old, "ordinary">>}
    /\ c_task' = [c_task EXCEPT ![t].pc = "reset_pri"]
    /\ UNCHANGED <<channels_by_peers, c_ready, c_entry_lock, c_handler>>
    /\ UNCHANGED notC

\* reset_peer: channels_by_id.remove(removed.priority_channel_in_id()), then
\* peer.reset() and the release of the peer entry
ResetPeerRemovePriority(t) ==
    /\ UNCHANGED <<c_peer, c_last>>
    /\ c_task[t].pc = "reset_pri"
    /\ channels_by_id' = channels_by_id \ {<<c_task[t].old, "priority">>}
    /\ c_task' = [c_task EXCEPT ![t] = IdleTask]
    /\ UNCHANGED <<channels_by_peers, c_entry_lock, c_handler>>
    /\ DropUnused
    /\ UNCHANGED notC

\* handle_received_data: channels_by_id.get(&data[0..32]) finds a channel; the
\* packet is decrypted, which may fail and end the handler (`?`), and only then
\* is the channel made ready
DecryptSetsReadyAlways(ready, c, decrypted) == ready \cup {c}
DecryptSetsReady(ready, c, decrypted) == IF decrypted THEN ready \cup {c} ELSE ready

HandlerFindsChannel(h, c, class, decrypted) ==
    /\ UNCHANGED <<c_params, c_peer, c_last>>
    /\ c_handler[h].pc = "idle"
    /\ <<c, class>> \in channels_by_id
    /\ c_ready' = DecryptSetsReady(c_ready, c, decrypted)
    /\ c_handler' = [c_handler EXCEPT ![h] =
           IF decrypted
           THEN [pc |-> "check_packet", found |-> c, by_peers |-> channels_by_peers,
                 result |-> "none"]
           ELSE [IdleObserver EXCEPT !.result = "DecryptError"]]
    /\ UNCHANGED <<channels_by_peers, channels_by_id, c_entry_lock, c_task>>
    /\ UNCHANGED notC

\* check_packet: channels_by_peers.contains_key(&peer_id), or UnknownChannel
HandlerChecksPacket(h) ==
    /\ UNCHANGED <<c_peer, c_last>>
    /\ c_handler[h].pc = "check_packet"
    /\ c_entry_lock = NoTask
    /\ c_handler' = [c_handler EXCEPT ![h] =
           [pc |-> "idle", found |-> NoChannel, by_peers |-> NoChannel,
            result |-> IF channels_by_peers # NoChannel THEN "ok"
                       ELSE "UnknownChannel"]]
    /\ UNCHANGED <<channels_by_peers, channels_by_id, c_entry_lock, c_task>>
    /\ DropUnused
    /\ UNCHANGED notC

\* delete_peer: peers.remove(peer_id), which waits for the holders of the peer
\* entry and leaves the channel tables alone
CDeletePeer ==
    /\ ~PeerHeldShared
    /\ ~PeerHeldExclusive
    /\ c_peer' = FALSE
    /\ UNCHANGED <<channels_by_peers, channels_by_id, c_ready, c_params, c_last,
                   c_entry_lock, c_task, c_handler>>
    /\ UNCHANGED notC

\* add_peer: the peer is known afterwards
CAddPeer ==
    /\ ~PeerHeldShared
    /\ ~PeerHeldExclusive
    /\ c_peer' = TRUE
    /\ UNCHANGED <<channels_by_peers, channels_by_id, c_ready, c_params, c_last,
                   c_entry_lock, c_task, c_handler>>
    /\ UNCHANGED notC

CNext ==
    \/ \E t \in Tasks, key \in ChannelKeys, date \in Dates, context \in Contexts :
           CreateChannelEntry(t, key, date, context)
    \/ \E t \in Tasks : CreateChannelRemoveOrdinary(t)
    \/ \E t \in Tasks : CreateChannelRemovePriority(t)
    \/ \E t \in Tasks : CreateChannelInsertOrdinary(t)
    \/ \E t \in Tasks : CreateChannelInsertPriority(t)
    \/ \E t \in Tasks : ResetPeerRemove(t)
    \/ \E t \in Tasks : ResetPeerRemoveOrdinary(t)
    \/ \E t \in Tasks : ResetPeerRemovePriority(t)
    \/ \E h \in Observers, c \in ChannelIds, class \in Classes,
          decrypted \in BOOLEAN :
           HandlerFindsChannel(h, c, class, decrypted)
    \/ \E h \in Observers : HandlerChecksPacket(h)
    \/ CDeletePeer
    \/ CAddPeer

-----------------------------------------------------------------------------
(***************************************************************************)
(* Channel bootstrapping between two nodes that know each other.  No node  *)
(* restarts or resets the peer, so the ephemeral channel keys are fixed    *)
(* and a channel is told apart by the peer date it stores; every packet    *)
(* passes check_packet; the network delivers every packet, in any order.   *)
(***************************************************************************)
Nodes == {"A", "B"}
Other(n) == IF n = "A" THEN "B" ELSE "A"

NoBootChannel == [exists |-> FALSE, peer_channel_date |-> 0, ready |-> FALSE]
\* AdnlChannel::new: a channel that is not ready
BootChannel(date) == [exists |-> TRUE, peer_channel_date |-> date, ready |-> FALSE]

\* the packets in flight: handshake packets with their additional message, and
\* channel packets
BootPackets ==
    [framing : {"handshake"}, additional : {"CreateChannel", "ConfirmChannel"},
     date : Dates]
    \cup {[framing |-> "channel", additional |-> "None", date |-> 0]}

\* AdnlChannel::is_still_valid: same peer key (fixed here) and same date
is_still_valid(channel, date) == channel.peer_channel_date = date

\* send_message and send_packet: the packet a node sends for its channel state
BootOutgoing(n) ==
    IF ~b_channel[n].exists
    THEN [framing |-> "handshake", additional |-> "CreateChannel", date |-> b_date[n]]
    ELSE IF ~b_channel[n].ready
    THEN [framing |-> "handshake", additional |-> "ConfirmChannel",
          date |-> b_channel[n].peer_channel_date]
    ELSE [framing |-> "channel", additional |-> "None", date |-> 0]

\* create_channel: the channel of the peer afterwards
create_channel(channel, date, context) ==
    IF channel.exists
    THEN IF is_still_valid(channel, date)
         THEN IF context = "ConfirmChannel"
              THEN [channel EXCEPT !.ready = TRUE]
              ELSE channel
         ELSE BootChannel(date)
    ELSE BootChannel(date)

BStart ==
    /\ b_channel = [n \in Nodes |-> NoBootChannel]
    /\ b_date \in [Nodes -> Dates]
    /\ b_net = [n \in Nodes |-> {}]
    /\ b_sent = [n \in Nodes |-> "none"]

\* node n sends a message to the other node
BootSend(n) ==
    /\ b_net' = [b_net EXCEPT ![Other(n)] = @ \cup {BootOutgoing(n)}]
    /\ b_sent' = [b_sent EXCEPT ![n] = BootOutgoing(n).framing]
    /\ UNCHANGED <<b_channel, b_date>>
    /\ UNCHANGED notB

\* handle_received_data at node n: a channel packet is looked up by its id,
\* decrypted and makes the channel ready; a handshake packet has its
\* CreateChannel or ConfirmChannel processed by create_channel
BootReceive(n, packet) ==
    /\ packet \in b_net[n]
    /\ b_net' = [b_net EXCEPT ![n] = @ \ {packet}]
    /\ b_channel' =
           [b_channel EXCEPT ![n] =
               IF packet.framing = "channel"
               THEN IF b_channel[n].exists
                    THEN [b_channel[n] EXCEPT !.ready = TRUE]
                    ELSE b_channel[n]
               ELSE create_channel(b_channel[n], packet.date, packet.additional)]
    /\ UNCHANGED <<b_date, b_sent>>
    /\ UNCHANGED notB

BNext ==
    \/ \E n \in Nodes : BootSend(n)
    \/ \E n \in Nodes, packet \in BootPackets : BootReceive(n, packet)

-----------------------------------------------------------------------------
(***************************************************************************)
(* check_packet: source resolution, peer lookup and signature check        *)
(* (section 4.4, steps 1 to 3).  The packets carry no reinit dates and no  *)
(* seqno, so a packet that passes these steps is accepted.                 *)
(***************************************************************************)
\* the remote nodes: one in the peer table from the start, one a stranger
KnownPeer == "p1"
Stranger == "p2"
RemoteNodes == {KnownPeer, Stranger}
NotGiven == "none"

\* the packets: the framing they were decoded from (a channel frame comes with
\* the peer of the channel), the key in `from`, the id in `from_short`, the
\* node under whose key the signature verifies, and whether an address list
\* is present
SourcePackets ==
    [framing : {"handshake", "channel"},
     from : RemoteNodes \cup {NotGiven},
     from_short : RemoteNodes \cup {NotGiven},
     signature : RemoteNodes \cup {NotGiven},
     address : BOOLEAN]

\* check_packet::verify
verify(signature, public_key, mandatory) ==
    IF signature # NotGiven
    THEN IF signature = public_key THEN "Ok" ELSE "InvalidSignature"
    ELSE IF mandatory THEN "SignatureNotFound" ELSE "Ok"

\* check_packet: the source of the packet, [error, peer_id, check_signature,
\* add_peer]; add_peer tells whether add_peer ran
ResolveSource(packet, required) ==
    IF packet.framing = "channel"
    THEN IF packet.from # NotGiven \/ packet.from_short # NotGiven
         THEN [error |-> "ExplicitSourceForChannel", peer_id |-> NotGiven,
               check_signature |-> FALSE, add_peer |-> FALSE]
         ELSE [error |-> "Ok", peer_id |-> KnownPeer,
               check_signature |-> TRUE, add_peer |-> FALSE]
    ELSE IF packet.from # NotGiven
    THEN IF packet.from_short # NotGiven /\ packet.from_short # packet.from
         THEN [error |-> "InvalidPeerId", peer_id |-> NotGiven,
               check_signature |-> FALSE, add_peer |-> FALSE]
         ELSE [error |-> verify(packet.signature, packet.from, required),
               peer_id |-> packet.from,
               check_signature |-> FALSE,
               add_peer |-> /\ verify(packet.signature, packet.from, required) = "Ok"
                            /\ packet.address]
    ELSE IF packet.from_short # NotGiven
    THEN [error |-> "Ok", peer_id |-> packet.from_short,
          check_signature |-> TRUE, add_peer |-> FALSE]
    ELSE [error |-> "NoKeyDataInPacket", peer_id |-> NotGiven,
          check_signature |-> FALSE, add_peer |-> FALSE]

\* a lookup that consults the peer table before channels_by_peers
LookupPeerTableFirst(packet, source, peers) ==
    IF source.peer_id \notin peers THEN "UnknownPeer"
    ELSE IF packet.framing = "channel" /\ source.peer_id \notin k_channels
    THEN "UnknownChannel"
    ELSE "Ok"

\* check_packet: the peer lookup, after add_peer has run
LookupPeer(packet, source, peers) ==
    IF packet.framing = "channel" /\ source.peer_id \notin k_channels
    THEN "UnknownChannel"
    ELSE IF source.peer_id \notin peers THEN "UnknownPeer" ELSE "Ok"

\* check_packet, steps 1 to 3: "Ok" for Ok(Some(peer_id)), else the error;
\* `added` is what add_peer returns (false when the node filter refuses)
CheckSource(packet, required, added) ==
    LET source == ResolveSource(packet, required)
        peers == IF source.add_peer /\ added
                 THEN k_peers \cup {source.peer_id} ELSE k_peers
        lookup == LookupPeer(packet, source, peers)
    IN IF source.error # "Ok" THEN source.error
       ELSE IF lookup # "Ok" THEN lookup
       ELSE IF source.check_signature
            THEN verify(packet.signature, source.peer_id, FALSE)
            ELSE "Ok"

KStart ==
    /\ k_required \in BOOLEAN
    /\ k_peers = {KnownPeer}
    /\ k_channels = {KnownPeer}
    /\ k_checked = 0
    /\ k_last = [packet |-> [framing |-> "handshake", from |-> NotGiven,
                             from_short |-> NotGiven, signature |-> NotGiven,
                             address |-> FALSE],
                 result |-> "none", channels |-> {}, peers |-> {}]

\* handle_received_data hands a decoded packet to check_packet
CheckPacketSource(packet, added) ==
    /\ k_checked < MaxChecks
    /\ k_checked' = k_checked + 1
    /\ LET source == ResolveSource(packet, k_required) IN
       /\ ~source.add_peer => added
       /\ k_peers' = IF source.add_peer /\ added THEN k_peers \cup {source.peer_id}
                     ELSE k_peers
       /\ k_last' = [packet |-> packet,
                     result |-> CheckSource(packet, k_required, added),
                     channels |-> k_channels, peers |-> k_peers']
    /\ UNCHANGED <<k_required, k_channels>>
    /\ UNCHANGED notK

\* delete_peer removes the known peer from the peer table
KDeletePeer ==
    /\ KnownPeer \in k_peers
    /\ k_peers' = k_peers \ {KnownPeer}
    /\ UNCHANGED <<k_required, k_channels, k_checked, k_last>>
    /\ UNCHANGED notK

\* reset_peer removes the channel of the known peer
KResetPeer ==
    /\ KnownPeer \in k_channels
    /\ k_channels' = k_channels \ {KnownPeer}
    /\ UNCHANGED <<k_required, k_peers, k_checked, k_last>>
    /\ UNCHANGED notK

KNext ==
    \/ \E packet \in SourcePackets, added \in BOOLEAN :
           CheckPacketSource(packet, added)
    \/ KResetPeer
    \/ KDeletePeer

-----------------------------------------------------------------------------
(***************************************************************************)
(* handle_received_data on well-formed datagrams of one peer, on a node    *)
(* with packet_history_enabled = true.  A handshake-framed datagram names  *)
(* the peer by `from`, is signed and carries an address list and reinit    *)
(* dates whose target is the start time of the node; a channel-framed     *)
(* datagram was encrypted for the one channel the peer ever had.           *)
(***************************************************************************)
Addresses == 1..MaxAddresses

\* the datagrams: framing, seqno, the reinit date of the peer and the address
\* of its address list (0 where check_packet reads neither)
Datagrams ==
    [framing : {"handshake"}, seqno : 1..2,
     reinit : {StartTime, StartTime + 1}, address : Addresses]
    \cup [framing : {"ordinary", "priority"}, seqno : 1..2,
          reinit : {0}, address : {0}]

\* the priority class of a frame (a handshake frame is ordinary)
FramePriority(framing) == framing = "priority"

\* handle_received_data: the frame decodes; a channel frame needs the in-id of
\* its channel in channels_by_id
Decodes(datagram) == datagram.framing = "handshake" \/ g_channel # "none"

\* check_packet: add_peer of the `from` branch inserts a peer that is missing
PeerAfterAddPeer(datagram) == datagram.framing = "handshake" \/ g_present

\* check_packet on a handshake frame: add_peer made a new peer
AddedPeer(datagram) == datagram.framing = "handshake" /\ ~g_present

\* check_packet: the reinit date and the histories of the peer it looks up
PeerReinit(datagram) == IF AddedPeer(datagram) THEN StartTime ELSE g_reinit
PeerHistory(datagram) ==
    IF AddedPeer(datagram) THEN [p \in BOOLEAN |-> EmptyHistory] ELSE g_history

\* check_packet: the error it returns, "Repeated" for Ok(None), "Ok" for
\* Ok(Some(peer_id))
CheckDatagram(datagram) ==
    LET reinit == PeerReinit(datagram)
        history == IF datagram.framing = "handshake" /\ datagram.reinit > reinit
                   THEN EmptyHistory
                   ELSE PeerHistory(datagram)[FramePriority(datagram.framing)]
    IN IF ~PeerAfterAddPeer(datagram) THEN "UnknownPeer"
       ELSE IF datagram.framing = "handshake"
               /\ ~try_reinit(reinit, datagram.reinit)
            THEN "SrcReinitDateTooOld"
       ELSE IF ~deliver_packet(history, datagram.seqno) THEN "Repeated"
       ELSE "Ok"

GStart ==
    /\ g_present = TRUE
    /\ g_ip = 1
    /\ g_reinit = StartTime
    /\ g_history = [p \in BOOLEAN |-> EmptyHistory]
    /\ g_channel = "notready"
    /\ g_drop = FALSE
    /\ g_accepted = {}
    /\ g_handled = 0
    /\ g_last = [datagram |-> CHOOSE d \in Datagrams : TRUE, result |-> "none",
                 dispatched |-> FALSE]

\* handle_received_data, from the decoding of the frame to the dispatch of
\* the messages
HandleDatagram(datagram) ==
    /\ g_handled < MaxDatagrams
    /\ g_handled' = g_handled + 1
    /\ LET result == IF Decodes(datagram) THEN CheckDatagram(datagram)
                     ELSE "UnknownKeyId"
           priority == FramePriority(datagram.framing)
           reinits == /\ datagram.framing = "handshake"
                      /\ datagram.reinit > PeerReinit(datagram)
           history == IF reinits THEN [p \in BOOLEAN |-> EmptyHistory]
                      ELSE PeerHistory(datagram)
       IN
       \* channel.set_ready() and channel.reset_drop_timeout() after decrypt
       /\ g_channel' = IF datagram.framing # "handshake" /\ g_channel # "none"
                       THEN "ready" ELSE g_channel
       /\ g_drop' = IF datagram.framing # "handshake" THEN FALSE ELSE g_drop
       \* add_peer: a new peer, or set_ip_address on the one in the table
       /\ g_present' = PeerAfterAddPeer(datagram)
       /\ g_ip' = IF datagram.framing = "handshake" THEN datagram.address ELSE g_ip
       \* try_reinit and deliver_packet
       /\ g_reinit' = IF reinits THEN datagram.reinit ELSE PeerReinit(datagram)
       /\ g_history' = IF result \in {"Ok", "Repeated"}
                       THEN [history EXCEPT ![priority] =
                                 delivered_history(@, datagram.seqno)]
                       ELSE history
       /\ g_accepted' = IF result = "Ok" THEN g_accepted \cup {datagram}
                        ELSE g_accepted
       /\ g_last' = [datagram |-> datagram,
                     result |-> IF result \in {"Ok", "Repeated", "UnknownKeyId"}
                                THEN "Ok" ELSE result,
                     dispatched |-> result = "Ok"]
    /\ UNCHANGED notG

\* query_raw: a dropped query sets the drop timeout of the channel
GQueryDropped ==
    /\ g_channel # "none"
    /\ ~g_drop
    /\ g_drop' = TRUE
    /\ UNCHANGED <<g_present, g_ip, g_reinit, g_history, g_channel, g_accepted,
                   g_handled, g_last>>
    /\ UNCHANGED notG

\* reset_peer removes the channel
GResetPeer ==
    /\ g_present
    /\ g_channel # "none"
    /\ g_channel' = "none"
    /\ g_drop' = FALSE
    /\ UNCHANGED <<g_present, g_ip, g_reinit, g_history, g_accepted, g_handled,
                   g_last>>
    /\ UNCHANGED notG

\* delete_peer
GDeletePeer ==
    /\ g_present
    /\ g_present' = FALSE
    /\ UNCHANGED <<g_ip, g_reinit, g_history, g_channel, g_drop, g_accepted,
                   g_handled, g_last>>
    /\ UNCHANGED notG

GNext ==
    \/ \E datagram \in Datagrams : HandleDatagram(datagram)
    \/ GQueryDropped
    \/ GResetPeer
    \/ GDeletePeer

-----------------------------------------------------------------------------
(***************************************************************************)
(* start, shutdown and the two background tasks (sections 5 and 7).        *)
(* futures_util::future::select polls its first future first: a loop that  *)
(* finds its queue or socket ready takes that result, and sees the         *)
(* cancellation only when nothing is ready.                                *)
(***************************************************************************)
ErrorKinds == {"handler", "recv", "send"}

\* start: the result when sender_queue_rx was taken before
StartResultTaken == "AlreadyRunning"

\* a receiver loop that gives up on a socket error
ReceiverStopsOnError == "stopped"

\* start_receiver: the loop after recv_from returned an error
ReceiverAfterRecvError == "waiting"

\* start_sender: the loop after send_to returned an error or a short write
SenderAfterSendError == "waiting"

\* what a loop records once every kind of error has been seen
AfterErrors(errors, deed) == IF errors = ErrorKinds THEN {deed} ELSE {}

NStart ==
    /\ n_rx = "present"
    /\ n_cancelled = FALSE
    /\ n_sender = "none"
    /\ n_receiver = "none"
    /\ n_spawns = 0
    /\ n_starts = 0
    /\ n_last_start = [result |-> "none", spawns |-> 0]
    /\ n_queue = 0
    /\ n_enqueued = 0
    /\ n_socket = <<>>
    /\ n_arrived = 0
    /\ n_running = 0
    /\ n_handlers = 0
    /\ n_written = 0
    /\ n_errors = {}
    /\ n_after = {}

\* AdnlNode::start; bound tells whether make_udp_socket succeeds
Start(bound) ==
    /\ n_starts < MaxStarts
    /\ n_starts' = n_starts + 1
    /\ n_rx' = "taken"
    /\ IF n_rx = "taken"
       THEN /\ n_last_start' = [result |-> StartResultTaken, spawns |-> n_spawns]
            /\ UNCHANGED <<n_sender, n_receiver, n_spawns>>
       ELSE IF ~bound
       THEN /\ n_last_start' = [result |-> "BindError", spawns |-> n_spawns]
            /\ UNCHANGED <<n_sender, n_receiver, n_spawns>>
       ELSE /\ n_last_start' = [result |-> "Ok", spawns |-> n_spawns]
            /\ n_sender' = "waiting"
            /\ n_receiver' = "waiting"
            /\ n_spawns' = n_spawns + 1
    /\ UNCHANGED <<n_cancelled, n_queue, n_enqueued, n_socket, n_arrived, n_running,
                   n_handlers, n_written, n_errors, n_after>>
    /\ UNCHANGED notN

\* AdnlNode::shutdown
Shutdown ==
    /\ ~n_cancelled
    /\ n_cancelled' = TRUE
    /\ UNCHANGED <<n_rx, n_sender, n_receiver, n_spawns, n_starts, n_last_start,
                   n_queue, n_enqueued, n_socket, n_arrived, n_running, n_handlers,
                   n_written, n_errors, n_after>>
    /\ UNCHANGED notN

\* send_packet hands a packet to sender_queue_tx
Enqueue ==
    /\ n_enqueued < MaxQueued
    /\ n_enqueued' = n_enqueued + 1
    /\ n_queue' = n_queue + 1
    /\ UNCHANGED <<n_rx, n_cancelled, n_sender, n_receiver, n_spawns, n_starts,
                   n_last_start, n_socket, n_arrived, n_running, n_handlers,
                   n_written, n_errors, n_after>>
    /\ UNCHANGED notN

\* start_sender: select(recv, cancelled) completes
SenderSelect ==
    /\ n_sender = "waiting"
    /\ n_queue > 0 \/ n_cancelled
    /\ IF n_queue > 0
       THEN n_queue' = n_queue - 1 /\ n_sender' = "sending"
       ELSE n_queue' = n_queue /\ n_sender' = "stopped"
    /\ UNCHANGED <<n_rx, n_cancelled, n_receiver, n_spawns, n_starts, n_last_start,
                   n_enqueued, n_socket, n_arrived, n_running, n_handlers, n_written,
                   n_errors, n_after>>
    /\ UNCHANGED notN

\* start_sender: socket.send_to returns; outcome is "ok", "short" or "error"
SenderWrite(outcome) ==
    /\ n_sender = "sending"
    /\ n_written' = n_written + 1
    /\ n_sender' = IF outcome = "ok" THEN "waiting" ELSE SenderAfterSendError
    /\ n_errors' = IF outcome = "ok" THEN n_errors ELSE n_errors \cup {"send"}
    /\ n_after' = n_after \cup AfterErrors(n_errors, "write")
    /\ UNCHANGED <<n_rx, n_cancelled, n_receiver, n_spawns, n_starts, n_last_start,
                   n_queue, n_enqueued, n_socket, n_arrived, n_running, n_handlers>>
    /\ UNCHANGED notN

\* the socket has something for recv_from: a datagram, an empty datagram or
\* an error
SocketReady(result) ==
    /\ n_arrived < MaxReceived
    /\ n_arrived' = n_arrived + 1
    /\ n_socket' = Append(n_socket, result)
    /\ UNCHANGED <<n_rx, n_cancelled, n_sender, n_receiver, n_spawns, n_starts,
                   n_last_start, n_queue, n_enqueued, n_running, n_handlers,
                   n_written, n_errors, n_after>>
    /\ UNCHANGED notN

\* start_receiver: select(recv, cancelled) completes, and the turn of the loop
\* up to the next recv_from
ReceiverSelect ==
    /\ n_receiver = "waiting"
    /\ n_socket # <<>> \/ n_cancelled
    /\ IF n_socket # <<>>
       THEN /\ n_socket' = Tail(n_socket)
            /\ n_receiver' = IF Head(n_socket) = "error"
                             THEN ReceiverAfterRecvError ELSE "waiting"
            /\ n_errors' = IF Head(n_socket) = "error"
                           THEN n_errors \cup {"recv"} ELSE n_errors
            /\ IF Head(n_socket) = "datagram"
               THEN /\ n_handlers' = n_handlers + 1
                    /\ n_running' = n_running + 1
                    /\ n_after' = n_after \cup AfterErrors(n_errors, "spawn")
               ELSE UNCHANGED <<n_handlers, n_running, n_after>>
       ELSE /\ n_receiver' = "stopped"
            /\ UNCHANGED <<n_socket, n_errors, n_handlers, n_running, n_after>>
    /\ UNCHANGED <<n_rx, n_cancelled, n_sender, n_spawns, n_starts, n_last_start,
                   n_queue, n_enqueued, n_arrived, n_written>>
    /\ UNCHANGED notN

\* a handler task returns from handle_received_data; an error is logged
HandlerReturns(failed) ==
    /\ n_running > 0
    /\ n_running' = n_running - 1
    /\ n_errors' = IF failed THEN n_errors \cup {"handler"} ELSE n_errors
    /\ UNCHANGED <<n_rx, n_cancelled, n_sender, n_receiver, n_spawns, n_starts,
                   n_last_start, n_queue, n_enqueued, n_socket, n_arrived,
                   n_handlers, n_written, n_after>>
    /\ UNCHANGED notN

NNext ==
    \/ \E bound \in BOOLEAN : Start(bound)
    \/ Shutdown
    \/ Enqueue
    \/ SenderSelect
    \/ \E outcome \in {"ok", "short", "error"} : SenderWrite(outcome)
    \/ \E result \in {"datagram", "empty", "error"} : SocketReady(result)
    \/ ReceiverSelect
    \/ \E failed \in BOOLEAN : HandlerReturns(failed)

-----------------------------------------------------------------------------
(***************************************************************************)
(* The handshake codec (src/src/utils/handshake.rs, section 4.1).  A byte  *)
(* is a bit here.  compute_shared_secret and build_packet_cipher are not   *)
(* part of the sources at hand: the shared secret is a Diffie-Hellman      *)
(* product, the cipher a keystream added to the data byte by byte.         *)
(***************************************************************************)
Bytes == {0, 1}
Bodies == UNION {[1..n -> Bytes] : n \in 0..MaxBody}

\* private keys: the identities a node may hold, the temporary keys of build
IdentityKeys == {2, 3}
TempKeys == {5, 7}
\* the public key of a private key, the short id of an identity
PublicKey(private) == 100 + private
ShortId(private) == 200 + private

\* sha2::Sha256::digest, as an injective code of the byte string
RECURSIVE Sha256(_)
Sha256(bytes) ==
    IF bytes = <<>> THEN 1
    ELSE 2 * Sha256(SubSeq(bytes, 1, Len(bytes) - 1)) + bytes[Len(bytes)]

\* compute_shared_secret(private_key, public_key)
compute_shared_secret(private, public) == private * (public - 100)

\* build_packet_cipher(shared_secret, checksum): byte i of the keystream
Keystream(shared_secret, checksum, i) == ((shared_secret + checksum) \div i) % 2

\* apply_keystream on the first `length` bytes of data
apply_keystream(shared_secret, checksum, data, length) ==
    [i \in 1..Len(data) |->
        IF i <= length
        THEN (data[i] + Keystream(shared_secret, checksum, i)) % 2
        ELSE data[i]]

\* Option<usize>::None
NoLength == -1
\* the 96 bytes before the data: recipient, sender public key, checksum
HeaderLen == 96
\* the public keys compute_shared_secret takes; for other bytes it fails
ValidPublicKeys == {PublicKey(private) : private \in IdentityKeys \cup TempKeys}

\* a build_handshake_packet that takes the checksum of no body at all
BuildChecksumOfNothing(body) == Sha256(<<>>)

\* build_handshake_packet: the checksum it writes to buffer[64..96]
BuildChecksum(body) == Sha256(body)

\* build_handshake_packet: the buffer it leaves, by its fields
build_handshake_packet(peer_key, temp_key, body) ==
    LET checksum == BuildChecksum(body)
        shared_secret == compute_shared_secret(temp_key, PublicKey(peer_key))
    IN [header |-> HeaderLen,
        recipient |-> ShortId(peer_key),
        sender |-> PublicKey(temp_key),
        checksum |-> checksum,
        data |-> apply_keystream(shared_secret, checksum, body, Len(body))]

\* parse_handshake_packet with a length check of 96 bytes only
RequiredLengthOfHeader(data_length) == HeaderLen

\* parse_handshake_packet, line 57: 96 + data_length.unwrap_or_default()
RequiredLength(data_length) ==
    HeaderLen + (IF data_length = NoLength THEN 0 ELSE data_length)

\* parse_handshake_packet: the result ("Some" with the key, "None" or the
\* error) and the bytes left in the buffer: `prefix` bytes of the header, then
\* `data`.  A buffer shorter than the header is its length alone.
parse_handshake_packet(keys, buffer, data_length) ==
    LET length == IF data_length = NoLength THEN Len(buffer.data) ELSE data_length
        found == {key \in keys : ShortId(key) = buffer.recipient}
        untouched(result) == [result |-> result, key |-> 0,
                              prefix |-> buffer.header, data |-> buffer.data]
    IN IF buffer.header + Len(buffer.data) < RequiredLength(data_length)
       THEN untouched("BadHandshakePacketLength")
       ELSE IF found = {}
       THEN untouched("None")
       ELSE IF buffer.sender \notin ValidPublicKeys
       THEN untouched("SharedSecretError")
       ELSE LET key == CHOOSE k \in found : TRUE
                shared_secret == compute_shared_secret(key, buffer.sender)
                data == apply_keystream(shared_secret, buffer.checksum,
                                        buffer.data, length)
            IN IF Sha256(data) # buffer.checksum
               THEN [result |-> "BadHandshakePacketChecksum", key |-> 0,
                     prefix |-> buffer.header, data |-> data]
               ELSE [result |-> "Some", key |-> ShortId(key), prefix |-> 0,
                     data |-> data]

\* the datagrams of the socket: shorter than a header, or a header with any
\* recipient, sender and checksum before any data
ReceivedBuffers ==
    [header : {0, 32, HeaderLen - 1}, recipient : {0}, sender : {0}, checksum : {0},
     data : {<<>>}]
    \cup [header : {HeaderLen},
          recipient : {ShortId(key) : key \in IdentityKeys} \cup {0},
          sender : {PublicKey(5), 0},
          checksum : {Sha256(<<>>), Sha256(<<1>>)},
          data : Bodies]

HStart ==
    /\ h_pc = "idle"
    /\ h_body = <<>>
    /\ h_key = 2
    /\ h_packet = [header |-> 0, recipient |-> 0, sender |-> 0, checksum |-> 0,
                   data |-> <<>>]
    /\ h_keys = {}
    /\ h_data_length = NoLength
    /\ h_parsed = [result |-> "none", key |-> 0, prefix |-> 0, data |-> <<>>]

\* send_packet builds a handshake packet for the peer
BuildHandshake(body, peer_key, temp_key) ==
    /\ h_pc = "idle"
    /\ UNCHANGED notH
    /\ h_pc' = "built"
    /\ h_body' = body
    /\ h_key' = peer_key
    /\ h_packet' = build_handshake_packet(peer_key, temp_key, body)
    /\ UNCHANGED <<h_keys, h_data_length, h_parsed>>

\* a node with the local keys `keys` parses the packet
ParseHandshake(keys, data_length) ==
    /\ h_pc = "built"
    /\ UNCHANGED notH
    /\ h_pc' = "parsed"
    /\ h_keys' = keys
    /\ h_data_length' = data_length
    /\ h_parsed' = parse_handshake_packet(keys, h_packet, data_length)
    /\ UNCHANGED <<h_body, h_key, h_packet>>

\* handle_received_data: a node with the local keys `keys` parses a datagram
\* of the socket
ParseReceived(keys, buffer, data_length) ==
    /\ h_pc = "idle"
    /\ UNCHANGED notH
    /\ h_pc' = "received"
    /\ h_packet' = buffer
    /\ h_keys' = keys
    /\ h_data_length' = data_length
    /\ h_parsed' = parse_handshake_packet(keys, buffer, data_length)
    /\ UNCHANGED <<h_body, h_key>>

HNext ==
    \/ \E body \in Bodies, peer_key \in IdentityKeys, temp_key \in TempKeys :
           BuildHandshake(body, peer_key, temp_key)
    \/ \E keys \in SUBSET IdentityKeys, data_length \in {NoLength} \cup (0..(MaxBody + 1)) :
           ParseHandshake(keys, data_length)
    \/ \E keys \in SUBSET IdentityKeys, buffer \in ReceivedBuffers,
          data_length \in {NoLength} \cup (0..(MaxBody + 1)) :
           ParseReceived(keys, buffer, data_length)

-----------------------------------------------------------------------------
(***************************************************************************)
(* add_peer and delete_peer on the peers table of the local id, with the   *)
(* packets and resets that change a peer's state in between (sections 3    *)
(* and 6).                                                                 *)
(***************************************************************************)
\* the local id the node has a key and a peers table for, and one it has not
LocalId == "L"
LocalIds == {LocalId, "X"}
PeerIds == {"L", "P"}
\* self.ip_address and another address
OwnAddress == "own"
PeerAddresses == {OwnAddress, "a1"}
FullIds == {"f1", "f2"}
PeerChannelKeys == {"c1", "c2"}
\* the node has no filter, or the filter's check accepts or rejects the peer
Filters == {"none", "accept", "reject"}

NoPeer == [ip |-> "none"]
NoAddPeer == [result |-> "none", peer_id |-> "none", self |-> FALSE,
              rejected |-> FALSE, local_known |-> TRUE, was_known |-> FALSE,
              unchanged |-> TRUE, created |-> FALSE, only_ip |-> FALSE,
              others_unchanged |-> TRUE]

\* AdnlPeer::new: both reinit dates are the given one, the histories are empty,
\* the channel key is a generated one
AdnlPeerNew(reinit_date, ip, full_id) ==
    [ip |-> ip, full_id |-> full_id, receiver_reinit |-> reinit_date,
     sender_reinit |-> reinit_date, history |-> 0, channel_key |-> "c1"]

\* AdnlPeer::set_ip_address
set_ip_address(peer, ip) == [peer EXCEPT !.ip = ip]

\* add_peer, line 965: the peer is the node itself
IsSelfById(local_id, peer_id, ip) == peer_id = local_id
IsSelf(local_id, peer_id, ip) == peer_id = local_id /\ ip = OwnAddress

\* add_peer: what it returns and the peers table afterwards
add_peer(peers, local_id, peer_id, ip, full_id, filter) ==
    IF IsSelf(local_id, peer_id, ip)
    THEN [result |-> "false", peers |-> peers]
    ELSE IF filter = "reject"
    THEN [result |-> "false", peers |-> peers]
    ELSE IF local_id # LocalId
    THEN [result |-> "PeersNotFound", peers |-> peers]
    ELSE IF peers[peer_id] # NoPeer
    THEN [result |-> "true",
          peers |-> [peers EXCEPT ![peer_id] = set_ip_address(@, ip)]]
    ELSE [result |-> "true",
          peers |-> [peers EXCEPT ![peer_id] =
                        AdnlPeerNew(StartTime, ip, full_id)]]

PStart ==
    /\ p_peers = [peer_id \in PeerIds |-> NoPeer]
    /\ p_last = NoAddPeer

\* a call of add_peer; p_last keeps what the call was and what it did to the
\* table
AddPeer(local_id, peer_id, ip, full_id, filter) ==
    /\ p_peers' = add_peer(p_peers, local_id, peer_id, ip, full_id, filter).peers
    /\ p_last' =
         [result |-> add_peer(p_peers, local_id, peer_id, ip, full_id, filter).result,
          peer_id |-> peer_id,
          self |-> peer_id = local_id /\ ip = OwnAddress,
          rejected |-> filter = "reject",
          local_known |-> local_id = LocalId,
          was_known |-> local_id = LocalId /\ p_peers[peer_id] # NoPeer,
          unchanged |-> p_peers' = p_peers,
          created |-> /\ p_peers'[peer_id] # NoPeer
                      /\ p_peers'[peer_id].ip = ip
                      /\ p_peers'[peer_id].full_id = full_id
                      /\ p_peers'[peer_id].receiver_reinit = StartTime
                      /\ p_peers'[peer_id].sender_reinit = StartTime
                      /\ p_peers'[peer_id].history = 0,
          only_ip |-> /\ p_peers[peer_id] # NoPeer
                      /\ p_peers'[peer_id].ip = ip
                      /\ [p_peers'[peer_id] EXCEPT !.ip = p_peers[peer_id].ip]
                             = p_peers[peer_id],
          others_unchanged |-> \A other \in PeerIds \ {peer_id} :
                                   p_peers'[other] = p_peers[other]]
    /\ UNCHANGED notP

\* delete_peer
PDeletePeer(peer_id) ==
    /\ p_peers[peer_id] # NoPeer
    /\ p_peers' = [p_peers EXCEPT ![peer_id] = NoPeer]
    /\ UNCHANGED p_last
    /\ UNCHANGED notP

\* check_packet accepts a packet of the peer: its sequence number enters the
\* history
PeerPacketAccepted(peer_id) ==
    /\ p_peers[peer_id] # NoPeer
    /\ p_peers[peer_id].history = 0
    /\ p_peers' = [p_peers EXCEPT ![peer_id].history = 1]
    /\ UNCHANGED p_last
    /\ UNCHANGED notP

\* check_packet: try_reinit with a newer reinit date of the peer, which
\* empties the histories
PTryReinit(peer_id) ==
    /\ p_peers[peer_id] # NoPeer
    /\ p_peers[peer_id].sender_reinit = StartTime
    /\ p_peers' = [p_peers EXCEPT ![peer_id].sender_reinit = StartTime + 1,
                                  ![peer_id].history = 0]
    /\ UNCHANGED p_last
    /\ UNCHANGED notP

\* reset_peer: peer.reset() rotates the channel key
PResetPeer(peer_id, key) ==
    /\ p_peers[peer_id] # NoPeer
    /\ key # p_peers[peer_id].channel_key
    /\ p_peers' = [p_peers EXCEPT ![peer_id].channel_key = key]
    /\ UNCHANGED p_last
    /\ UNCHANGED notP

PNext ==
    \/ \E local_id \in LocalIds, peer_id \in PeerIds, ip \in PeerAddresses,
          full_id \in FullIds, filter \in Filters :
           AddPeer(local_id, peer_id, ip, full_id, filter)
    \/ \E peer_id \in PeerIds : PDeletePeer(peer_id)
    \/ \E peer_id \in PeerIds : PeerPacketAccepted(peer_id)
    \/ \E peer_id \in PeerIds : PTryReinit(peer_id)
    \/ \E peer_id \in PeerIds, key \in PeerChannelKeys : PResetPeer(peer_id, key)

-----------------------------------------------------------------------------
(***************************************************************************)
(* One remote peer of a node that has two local identities.  The peers     *)
(* tables are per local id; channels_by_peers has the peer id alone as its *)
(* key (mod.rs:37-43).  create_channel and send_message are taken whole.   *)
(***************************************************************************)
LocalIdentities == {"L1", "L2"}
KeyGenerations == {1, 2}
\* the public key of peer.channel_key() of the peer in the table of local_id
LocalChannelKey(local_id, generation) == <<local_id, generation>>
LocalChannelKeys ==
    {LocalChannelKey(l, g) : l \in LocalIdentities, g \in KeyGenerations}
\* the peer_key field of a ConfirmChannel; a CreateChannel has none
NoPeerKey == <<"none", 0>>

NoIdChannel == [local_id |-> "none", local_key |-> NoPeerKey, peer_key |-> "none",
                peer_date |-> 0, ready |-> FALSE]
NoIdCall == [op |-> "none", local_id |-> "none", outcome |-> "none",
             channel |-> NoIdChannel, peer_key |-> NoPeerKey, made_ready |-> FALSE]

MStart ==
    /\ m_channel = NoIdChannel
    /\ m_peers = LocalIdentities
    /\ m_key = [l \in LocalIdentities |-> 1]
    /\ m_last = NoIdCall

\* create_channel(local_id, peer_id, key, date, context); peer_key is the field
\* of the ConfirmChannel that process_message drops (`..`)
MCreateChannel(local_id, key, date, context, peer_key) ==
    /\ context = "CreateChannel" => peer_key = NoPeerKey
    /\ context = "ConfirmChannel" => peer_key # NoPeerKey
    /\ IF local_id \notin m_peers
       THEN /\ UNCHANGED m_channel
            /\ m_last' = [op |-> context, local_id |-> local_id,
                          outcome |-> "UnknownPeerInChannel", channel |-> m_channel,
                          peer_key |-> peer_key, made_ready |-> FALSE]
       ELSE IF /\ m_channel # NoIdChannel
               /\ m_channel.peer_key = key
               /\ m_channel.peer_date = date
       THEN /\ m_channel' = IF context = "ConfirmChannel"
                             THEN [m_channel EXCEPT !.ready = TRUE]
                             ELSE m_channel
            /\ m_last' = [op |-> context, local_id |-> local_id,
                          outcome |-> "still_valid", channel |-> m_channel,
                          peer_key |-> peer_key,
                          made_ready |-> ~m_channel.ready /\ m_channel'.ready]
       ELSE /\ m_channel' = [local_id |-> local_id,
                             local_key |-> LocalChannelKey(local_id, m_key[local_id]),
                             peer_key |-> key, peer_date |-> date, ready |-> FALSE]
            /\ m_last' = [op |-> context, local_id |-> local_id,
                          outcome |-> "new", channel |-> m_channel',
                          peer_key |-> peer_key, made_ready |-> FALSE]
    /\ UNCHANGED <<m_peers, m_key>>
    /\ UNCHANGED notM

\* send_message(local_id, peer_id, ..): the framing and the channel it signs
\* with
MSendMessage(local_id) ==
    /\ m_last' = [op |-> "send_message", local_id |-> local_id,
                  outcome |-> IF local_id \notin m_peers THEN "UnknownPeer"
                              ELSE IF m_channel # NoIdChannel /\ m_channel.ready
                              THEN "channel" ELSE "handshake",
                  channel |-> IF local_id \in m_peers THEN m_channel ELSE NoIdChannel,
                  peer_key |-> NoPeerKey, made_ready |-> FALSE]
    /\ UNCHANGED <<m_channel, m_peers, m_key>>
    /\ UNCHANGED notM

\* handle_received_data: a packet of the channel is decrypted
MChannelDecrypt ==
    /\ m_channel # NoIdChannel
    /\ ~m_channel.ready
    /\ m_channel' = [m_channel EXCEPT !.ready = TRUE]
    /\ UNCHANGED <<m_peers, m_key, m_last>>
    /\ UNCHANGED notM

\* reset_peer(local_id, peer_id): the channel of the peer id goes, the channel
\* key of the peer of local_id is rotated
MResetPeer(local_id) ==
    /\ local_id \in m_peers
    /\ m_channel' = NoIdChannel
    /\ m_key' = [m_key EXCEPT ![local_id] = IF @ = 1 THEN 2 ELSE 1]
    /\ UNCHANGED <<m_peers, m_last>>
    /\ UNCHANGED notM

\* delete_peer(local_id, peer_id), or delete_key(local_id)
MDeletePeer(local_id) ==
    /\ local_id \in m_peers
    /\ m_peers' = m_peers \ {local_id}
    /\ UNCHANGED <<m_channel, m_key, m_last>>
    /\ UNCHANGED notM

\* add_peer(local_id, peer_id, ..) of a peer the table does not hold:
\* AdnlPeer::new generates a channel key
MAddPeer(local_id, generation) ==
    /\ local_id \notin m_peers
    /\ m_peers' = m_peers \cup {local_id}
    /\ m_key' = [m_key EXCEPT ![local_id] = generation]
    /\ UNCHANGED <<m_channel, m_last>>
    /\ UNCHANGED notM

MNext ==
    \/ \E local_id \in LocalIdentities, key \in ChannelKeys, date \in Dates,
          context \in Contexts, peer_key \in LocalChannelKeys \cup {NoPeerKey} :
           MCreateChannel(local_id, key, date, context, peer_key)
    \/ \E local_id \in LocalIdentities : MSendMessage(local_id)
    \/ MChannelDecrypt
    \/ \E local_id \in LocalIdentities : MResetPeer(local_id)
    \/ \E local_id \in LocalIdentities : MDeletePeer(local_id)
    \/ \E local_id \in LocalIdentities, generation \in KeyGenerations :
           MAddPeer(local_id, generation)

-----------------------------------------------------------------------------
(***************************************************************************)
(* The DashMap guards of the tasks that work on one peer.  A guard locks   *)
(* the shard of its key; the peer, its channel and the in-ids of the       *)
(* channel are taken to lie in one shard of their tables each.  A call is  *)
(* the sequence of guard operations its code performs, in code order: a    *)
(* guard is released where its binding or temporary is dropped.            *)
(***************************************************************************)
GuardTasks == 1..MaxGuardTasks
PeerTable == "peers"
ByPeers == "channels_by_peers"
ById == "channels_by_id"
Tables == {PeerTable, ByPeers, ById}

\* the order of the tables
TableOrder(table) ==
    CASE table = PeerTable -> 1
      [] table = ByPeers -> 2
      [] table = ById -> 3

ReadGuard(table) == <<"read", table>>
WriteGuard(table) == <<"write", table>>
Release(table) == <<"release", table>>

\* add_peer: peers.entry(peer_id), dropped at the end of the match
AddPeerGuards == <<WriteGuard(PeerTable), Release(PeerTable)>>

\* send_message: peers.get(peer_id) and channels_by_peers.get(peer_id) live to
\* the end of the function
SendMessageGuards ==
    <<ReadGuard(PeerTable), ReadGuard(ByPeers), Release(ByPeers), Release(PeerTable)>>

\* a check_packet that calls send_message with the peer guard still alive
CheckPacketKeepsPeer(framing, too_old) ==
    (IF framing = "handshake" THEN AddPeerGuards
     ELSE <<ReadGuard(ByPeers), Release(ByPeers)>>)
    \o (IF too_old
        THEN <<ReadGuard(PeerTable)>> \o SendMessageGuards \o <<Release(PeerTable)>>
        ELSE <<ReadGuard(PeerTable), Release(PeerTable)>>)

\* check_packet: add_peer in the `from` branch, contains_key for a channel
\* frame, then peers.get(peer_id), dropped before send_message(Nop) at
\* DstReinitDateTooOld and at the return otherwise
CheckPacketGuards(framing, too_old) ==
    (IF framing = "handshake" THEN AddPeerGuards
     ELSE <<ReadGuard(ByPeers), Release(ByPeers)>>)
    \o <<ReadGuard(PeerTable), Release(PeerTable)>>
    \o (IF too_old THEN SendMessageGuards ELSE <<>>)

ChannelArms == {"still_valid", "replace", "vacant"}

\* one remove or insert on channels_by_id
ByIdUpdate == <<WriteGuard(ById), Release(ById)>>

\* create_channel: peers.get(peer_id) lives to the end; the Occupied entry of
\* channels_by_peers lives through the removes and inserts, the RefMut of the
\* Vacant arm is dropped before the inserts
CreateChannelGuards(arm) ==
    <<ReadGuard(PeerTable), WriteGuard(ByPeers)>>
    \o (CASE arm = "still_valid" -> <<Release(ByPeers)>>
          [] arm = "replace" ->
                 ByIdUpdate \o ByIdUpdate \o ByIdUpdate \o ByIdUpdate
                 \o <<Release(ByPeers)>>
          [] arm = "vacant" -> <<Release(ByPeers)>> \o ByIdUpdate \o ByIdUpdate)
    \o <<Release(PeerTable)>>

\* reset_peer: peers.get_mut(peer_id) lives to the end; channels_by_peers
\* .remove returns before the two channels_by_id.remove
ResetPeerGuards ==
    <<WriteGuard(PeerTable), WriteGuard(ByPeers), Release(ByPeers)>>
    \o ByIdUpdate \o ByIdUpdate \o <<Release(PeerTable)>>

HandledMessages == {"CreateChannel", "Query", "Nop"}

\* process_message: create_channel for CreateChannel and ConfirmChannel,
\* send_message for the answer to a Query
ProcessMessageGuards(message, arm) ==
    CASE message = "CreateChannel" -> CreateChannelGuards(arm)
      [] message = "Query" -> SendMessageGuards
      [] message = "Nop" -> <<>>

\* handle_received_data: channels_by_id.get lives through decrypt and
\* set_ready of a channel frame; check_packet; the message, unless check_packet
\* returned an error
HandleReceivedDataGuards(framing, too_old, message, arm) ==
    (IF framing = "handshake" THEN <<>> ELSE <<ReadGuard(ById), Release(ById)>>)
    \o CheckPacketGuards(framing, too_old)
    \o (IF too_old THEN <<>> ELSE ProcessMessageGuards(message, arm))

\* query_raw: send_message, the channel is captured (the guard of
\* channels_by_peers.get is a temporary), and reset_peer after a drop
QueryRawGuards(reset) ==
    SendMessageGuards \o <<ReadGuard(ByPeers), Release(ByPeers)>>
    \o (IF reset THEN ResetPeerGuards ELSE <<>>)

\* the task that runs query_raw; the others are the tasks the receiver loop
\* spawns for datagrams
QueryTask == MaxGuardTasks

\* the calls of a task
GuardCalls(t) ==
    IF t = QueryTask
    THEN {QueryRawGuards(reset) : reset \in BOOLEAN}
    ELSE {HandleReceivedDataGuards(framing, too_old, message, arm) :
              framing \in {"handshake", "channel"}, too_old \in BOOLEAN,
              message \in HandledMessages, arm \in ChannelArms}

NoCallGuards == [ops |-> <<>>, pc |-> 0]

\* the guards task t holds on a table: the acquisitions it has not released
Acquired(t, table) ==
    {i \in 1..l_task[t].pc :
        l_task[t].ops[i][2] = table /\ l_task[t].ops[i][1] # "release"}
Released(t, table) ==
    {i \in 1..l_task[t].pc : l_task[t].ops[i] = Release(table)}
Holds(t, table) == Cardinality(Acquired(t, table)) > Cardinality(Released(t, table))
HoldsWrite(t, table) ==
    /\ Holds(t, table)
    /\ \E i \in Acquired(t, table) : l_task[t].ops[i][1] = "write"

Running(t) == l_task[t].pc < Len(l_task[t].ops)
\* the guard operation task t performs next
NextOp(t) == l_task[t].ops[l_task[t].pc + 1]
Wants(t, kind, table) == Running(t) /\ NextOp(t) = <<kind, table>>

\* a shard lock grants a read guard when no task holds the write guard, and a
\* write guard when no task holds any guard
LockGrants(t, op) ==
    CASE op[1] = "release" -> TRUE
      [] op[1] = "read" -> \A u \in GuardTasks : ~HoldsWrite(u, op[2])
      [] op[1] = "write" -> \A u \in GuardTasks : ~Holds(u, op[2])

\* a lock that prefers writers makes a reader wait behind a waiting writer
LockGrantsBehindWriters(t, op) ==
    /\ LockGrants(t, op)
    /\ op[1] = "read" =>
           \A u \in GuardTasks \ {t} : ~Wants(u, "write", op[2])

LStart ==
    /\ l_task = [t \in GuardTasks |-> NoCallGuards]
    /\ l_calls = 0

\* a task starts a call
GuardCall(t, ops) ==
    /\ ~Running(t)
    /\ l_calls < MaxCalls
    /\ ops # <<>>
    /\ l_calls' = l_calls + 1
    /\ l_task' = [l_task EXCEPT ![t] = [ops |-> ops, pc |-> 0]]
    /\ UNCHANGED notL

\* a task performs its next guard operation; after the last one the call
\* returns
GuardStep(t) ==
    /\ Running(t)
    /\ LockGrants(t, NextOp(t))
    /\ l_task' = [l_task EXCEPT ![t] =
           IF @.pc + 1 = Len(@.ops) THEN NoCallGuards ELSE [@ EXCEPT !.pc = @ + 1]]
    /\ UNCHANGED l_calls
    /\ UNCHANGED notL

LNext ==
    \/ \E t \in GuardTasks : \E ops \in GuardCalls(t) : GuardCall(t, ops)
    \/ \E t \in GuardTasks : GuardStep(t)

-----------------------------------------------------------------------------
(***************************************************************************)
(* The buckets of the DHT node (dht_node/buckets.rs).  An id is written as *)
(* the set of its non-zero bytes, <<position, value>>; as_slice gives its  *)
(* 32 bytes.  All arithmetic on bytes and on the affinity is u8.           *)
(***************************************************************************)
KeyLen == 32
BucketCount == 256
ByteLimit == 256

ZeroKey == {}
\* the ids of the peers, in the order a bucket iterates over them
PeerKeySeq == <<ZeroKey, {<<1, 128>>}, {<<1, 9>>}, {<<32, 1>>}>>
PeerKeys == {PeerKeySeq[i] : i \in 1..Len(PeerKeySeq)}
LocalKeys == {{<<32, 1>>}}
\* the keys find looks for
FindKeys == PeerKeys \cup {{<<1, 137>>}}

\* the 32 bytes of every id
KeyBytes ==
    [id \in FindKeys \cup LocalKeys |->
        [i \in 1..KeyLen |->
            IF \E b \in id : b[1] = i THEN (CHOOSE b \in id : b[1] = i)[2] ELSE 0]]

as_slice(id) == KeyBytes[id]

\* a ^ b on values below 2^bits
RECURSIVE XorBits(_, _, _)
XorBits(a, b, bits) ==
    IF bits = 0 THEN 0
    ELSE 2 * XorBits(a \div 2, b \div 2, bits - 1) + ((a + b) % 2)

Xor(a, b) == IF a = b THEN 0 ELSE XorBits(a, b, 8)

\* x << n on a u8
ShiftLeft(x, n) == (x * 2^n) % ByteLimit

\* the table BITS, indexed from 0
BITS(x) == <<4, 3, 2, 2, 1, 1, 1, 1, 0, 0, 0, 0, 0, 0, 0, 0>>[x + 1]

\* a get_affinity result: the call panicked (overflow in a checked build), or
\* its value
Affinity(value) == [panicked |-> FALSE, value |-> value]
AffinityPanic == [panicked |-> TRUE, value |-> 0]

\* result += n on a u8: a checked build panics on overflow, an unchecked one
\* wraps
AddU8(result, n, checks) ==
    IF result.panicked THEN result
    ELSE IF result.value + n >= ByteLimit
    THEN (IF checks THEN AffinityPanic
          ELSE Affinity((result.value + n) % ByteLimit))
    ELSE Affinity(result.value + n)

\* get_affinity: the loop over the bytes from byte i on
RECURSIVE AffinityFrom(_, _, _, _, _)
AffinityFrom(key1, key2, i, result, checks) ==
    IF i > KeyLen \/ result.panicked THEN result
    ELSE LET x == Xor(key1[i], key2[i]) IN
         IF x = 0 THEN AffinityFrom(key1, key2, i + 1, AddU8(result, 8, checks), checks)
         ELSE IF x \div 16 = 0 THEN AddU8(result, BITS(x % 16) + 4, checks)
         ELSE AddU8(result, BITS(x \div 16), checks)

get_affinity(key1, key2, checks) == AffinityFrom(key1, key2, 1, Affinity(0), checks)

saturating_add(a, b) == Min(a + b, ByteLimit - 1)

Versions == 1..MaxVersion
NodeRecord(bucket, peer_id, version) ==
    [bucket |-> bucket, peer_id |-> peer_id, version |-> version]

\* the records of a peer id, in any bucket
Stored(buckets, peer_id) == {e \in buckets : e.peer_id = peer_id}

\* Buckets::insert on the bucket of the affinity: a vacant entry takes the
\* record, an occupied one takes it if its version is lower
BucketsInsert(buckets, affinity, peer_id, version) ==
    LET entry == {e \in buckets : e.bucket = affinity /\ e.peer_id = peer_id} IN
    IF entry = {} THEN buckets \cup {NodeRecord(affinity, peer_id, version)}
    ELSE IF \E e \in entry : e.version < version
    THEN (buckets \ entry) \cup {NodeRecord(affinity, peer_id, version)}
    ELSE buckets

\* the position of a peer id in the iteration of a bucket
Rank(peer_id) == CHOOSE i \in 1..Len(PeerKeySeq) : PeerKeySeq[i] = peer_id

\* bucket.iter(): the records of a bucket, in the order of the map or in the
\* reverse order
RECURSIVE BucketIter(_, _)
BucketIter(records, reversed) ==
    IF records = {} THEN <<>>
    ELSE LET first == CHOOSE e \in records : \A o \in records :
                          IF reversed THEN Rank(o.peer_id) <= Rank(e.peer_id)
                          ELSE Rank(e.peer_id) <= Rank(o.peer_id)
         IN <<first>> \o BucketIter(records \ {first}, reversed)

NoNodes == [nodes |-> <<>>, visited |-> <<>>, done |-> FALSE]

\* find: the records of one bucket are pushed; the loops end when nodes.len()
\* equals k after a push
PushBucket(found, items, bucket, k) ==
    LET room == k - Len(found.nodes) IN
    IF room >= 1 /\ room <= Len(items)
    THEN [nodes |-> found.nodes \o SubSeq(items, 1, room),
          visited |-> Append(found.visited, bucket), done |-> TRUE]
    ELSE [nodes |-> found.nodes \o items,
          visited |-> Append(found.visited, bucket), done |-> FALSE]

\* find: the while loop over the bits of one byte
RECURSIVE FindBits(_, _, _, _, _, _)
FindBits(buckets, xor, subdistance, found, k, reversed) ==
    IF found.done \/ xor = 0 THEN found
    ELSE IF xor \div 16 = 0
    THEN FindBits(buckets, ShiftLeft(xor, 4), saturating_add(subdistance, 4),
                  found, k, reversed)
    ELSE LET shift == BITS(xor \div 16)
             bucket == saturating_add(subdistance, shift)
             items == BucketIter({e \in buckets : e.bucket = bucket}, reversed)
         IN FindBits(buckets, ShiftLeft(xor, shift + 1), saturating_add(bucket, 1),
                     PushBucket(found, items, bucket, k), k, reversed)

\* find: the loop over the bytes of the keys
RECURSIVE FindBytes(_, _, _, _, _, _, _, _)
FindBytes(buckets, key1, key2, i, distance, found, k, reversed) ==
    IF i > KeyLen \/ found.done THEN found
    ELSE FindBytes(buckets, key1, key2, i + 1, saturating_add(distance, 8),
                   FindBits(buckets, Xor(key1[i], key2[i]), distance, found, k,
                            reversed),
                   k, reversed)

\* Buckets::find(local_id, key, k)
BucketsFind(buckets, local_id, key, k, reversed) ==
    FindBytes(buckets, as_slice(local_id), as_slice(key), 1, 0, NoNodes, k, reversed)

NoBucketCall == [op |-> "none", key1 |-> ZeroKey, key2 |-> ZeroKey, version |-> 0,
                 k |-> 0, affinity |-> Affinity(0), nodes |-> <<>>,
                 visited |-> <<>>]

UStart ==
    /\ u_local \in LocalKeys
    /\ u_checks \in BOOLEAN
    /\ u_buckets = {}
    /\ u_seen = [p \in PeerKeys |-> 0]
    /\ u_last = NoBucketCall

\* Buckets::insert(local_id, peer_id, peer): the affinity is computed, then
\* the entry of the peer id in its bucket is updated under the entry's lock
UInsert(peer_id, version) ==
    /\ LET affinity == get_affinity(as_slice(u_local), as_slice(peer_id), u_checks) IN
       /\ u_buckets' = IF affinity.panicked THEN u_buckets
                       ELSE BucketsInsert(u_buckets, affinity.value, peer_id, version)
       /\ u_last' = [NoBucketCall EXCEPT !.op = "insert", !.key1 = u_local,
                         !.key2 = peer_id, !.version = version,
                         !.affinity = affinity]
    /\ u_seen' = [u_seen EXCEPT ![peer_id] = IF @ < version THEN version ELSE @]
    /\ UNCHANGED <<u_local, u_checks>>
    /\ UNCHANGED notU

\* Buckets::find(local_id, key, k)
UFind(key, k, reversed) ==
    /\ LET found == BucketsFind(u_buckets, u_local, key, k, reversed) IN
       u_last' = [NoBucketCall EXCEPT !.op = "find", !.key1 = u_local,
                      !.key2 = key, !.k = k, !.nodes = found.nodes,
                      !.visited = found.visited]
    /\ UNCHANGED <<u_local, u_checks, u_buckets, u_seen>>
    /\ UNCHANGED notU

\* get_affinity(key1, key2)
UGetAffinity(key1, key2) ==
    /\ u_last' = [NoBucketCall EXCEPT !.op = "get_affinity", !.key1 = key1,
                      !.key2 = key2,
                      !.affinity = get_affinity(as_slice(key1), as_slice(key2),
                                                u_checks)]
    /\ UNCHANGED <<u_local, u_checks, u_buckets, u_seen>>
    /\ UNCHANGED notU

UNext ==
    \/ \E peer_id \in PeerKeys, version \in Versions : UInsert(peer_id, version)
    \/ \E key \in FindKeys, k \in 0..MaxK, reversed \in BOOLEAN :
           UFind(key, k, reversed)
    \/ \E key1 \in LocalKeys, key2 \in FindKeys : UGetAffinity(key1, key2)

-----------------------------------------------------------------------------
(***************************************************************************)
(* Specifications.                                                         *)
(***************************************************************************)
\* the subsystems a specification does not run stay in one initial state
RQuiet == RStart /\ ~r_enabled
BQuiet == BStart /\ b_date = [n \in Nodes |-> 1]
KQuiet == KStart /\ k_required
UQuiet == UStart /\ ~u_checks

QInit == QStart /\ SStart /\ TStart /\ RQuiet /\ CStart /\ BQuiet /\ KQuiet /\ GStart /\ NStart /\ HStart /\ AStart /\ PStart /\ MStart /\ LStart /\ UQuiet

SpecQuery == QInit /\ [][QNext]_vars

\* the runtime runs every spawned task and every woken waiter
QFairness ==
    \A id \in QueryIds :
        /\ WF_vars(TimerFire(id))
        /\ WF_vars(WaiterWake(id))
        /\ WF_vars(QueryRawDropped(id))

FairSpecQuery == QInit /\ [][QNext]_vars /\ QFairness

SInit == SStart /\ QStart /\ TStart /\ RQuiet /\ CStart /\ BQuiet /\ KQuiet /\ GStart /\ NStart /\ HStart /\ AStart /\ PStart /\ MStart /\ LStart /\ UQuiet

SpecSend == SInit /\ [][SNext]_vars

SpecAnswer == SInit /\ [][ANext]_vars

DInit == DStart /\ QStart /\ TStart /\ RQuiet /\ CStart /\ BQuiet /\ KQuiet /\ GStart /\ NStart /\ HStart /\ AStart /\ PStart /\ MStart /\ LStart /\ UQuiet

SpecDemote == DInit /\ [][DNext]_vars

TInit == TStart /\ QStart /\ SStart /\ RQuiet /\ CStart /\ BQuiet /\ KQuiet /\ GStart /\ NStart /\ HStart /\ AStart /\ PStart /\ MStart /\ LStart /\ UQuiet

SpecTransfer == TInit /\ [][TNext]_vars

\* the transfers with fewer Parts arriving
TLiveNext ==
    \/ \E h \in Handlers, fragment \in Fragments \cup {OutOfRange} :
           t_arrivals < MaxLiveArrivals /\ ProcessPartEntry(h, fragment)
    \/ \E h \in Handlers, decoded \in Decoded : ProcessPartAdd(h, decoded)
    \/ TransferTimePasses
    \/ \E o \in TransferObjects : TransferJanitor(o)

FairSpecTransfer == TInit /\ [][TLiveNext]_vars /\ TFairness

RInit == RStart /\ QStart /\ SStart /\ TStart /\ CStart /\ BQuiet /\ KQuiet /\ GStart /\ NStart /\ HStart /\ AStart /\ PStart /\ MStart /\ LStart /\ UQuiet

SpecRecv == RInit /\ [][RNext]_vars

SpecReinit == RInit /\ [][ReinitNext]_vars

CInit == CStart /\ QStart /\ SStart /\ TStart /\ RQuiet /\ BQuiet /\ KQuiet /\ GStart /\ NStart /\ HStart /\ AStart /\ PStart /\ MStart /\ LStart /\ UQuiet

SpecChan == CInit /\ [][CNext]_vars

BInit == BStart /\ QStart /\ SStart /\ TStart /\ RQuiet /\ CStart /\ KQuiet /\ GStart /\ NStart /\ HStart /\ AStart /\ PStart /\ MStart /\ LStart /\ UQuiet

\* both nodes keep sending, and the network loses no packet
BFairness ==
    /\ \A n \in Nodes : WF_vars(BootSend(n))
    /\ \A n \in Nodes, packet \in BootPackets : WF_vars(BootReceive(n, packet))

FairSpecBoot == BInit /\ [][BNext]_vars /\ BFairness

KInit == KStart /\ QStart /\ SStart /\ TStart /\ RQuiet /\ CStart /\ BQuiet /\ GStart /\ NStart /\ HStart /\ AStart /\ PStart /\ MStart /\ LStart /\ UQuiet

SpecSource == KInit /\ [][KNext]_vars

GInit == GStart /\ QStart /\ SStart /\ TStart /\ RQuiet /\ CStart /\ BQuiet /\ KQuiet /\ NStart /\ HStart /\ AStart /\ PStart /\ MStart /\ LStart /\ UQuiet

SpecReplay == GInit /\ [][GNext]_vars

NInit == NStart /\ QStart /\ SStart /\ TStart /\ RQuiet /\ CStart /\ BQuiet /\ KQuiet /\ GStart /\ HStart /\ AStart /\ PStart /\ MStart /\ LStart /\ UQuiet

SpecNode == NInit /\ [][NNext]_vars

\* the runtime runs the two spawned tasks
NFairness ==
    /\ WF_vars(SenderSelect)
    /\ WF_vars(\E outcome \in {"ok", "short", "error"} : SenderWrite(outcome))
    /\ WF_vars(ReceiverSelect)

FairSpecNode == NInit /\ [][NNext]_vars /\ NFairness

HInit == HStart /\ QStart /\ SStart /\ TStart /\ RQuiet /\ CStart /\ BQuiet /\ KQuiet /\ GStart /\ NStart /\ AStart /\ PStart /\ MStart /\ LStart /\ UQuiet

SpecHandshake == HInit /\ [][HNext]_vars

PInit == PStart /\ HStart /\ QStart /\ SStart /\ TStart /\ RQuiet /\ CStart /\ BQuiet /\ KQuiet /\ GStart /\ NStart /\ AStart /\ MStart /\ LStart /\ UQuiet

SpecPeers == PInit /\ [][PNext]_vars

MInit == MStart /\ PStart /\ HStart /\ QStart /\ SStart /\ TStart /\ RQuiet /\ CStart /\ BQuiet /\ KQuiet /\ GStart /\ NStart /\ AStart /\ LStart /\ UQuiet

SpecIdentities == MInit /\ [][MNext]_vars

LInit == LStart /\ PStart /\ HStart /\ QStart /\ SStart /\ TStart /\ RQuiet /\ CStart /\ BQuiet /\ KQuiet /\ GStart /\ NStart /\ AStart /\ MStart /\ UQuiet

SpecGuards == LInit /\ [][LNext]_vars

UInit == UStart /\ LStart /\ PStart /\ HStart /\ QStart /\ SStart /\ TStart /\ RQuiet /\ CStart /\ BQuiet /\ KQuiet /\ GStart /\ NStart /\ AStart /\ MStart

SpecBuckets == UInit /\ [][UNext]_vars

-----------------------------------------------------------------------------
(***************************************************************************)
(* Claims about the query registry.                                        *)
(***************************************************************************)

\* the update_query calls on id that found the query registered
RegisteredBefore(L, i) == \E j \in 1..(i - 1) : L[j].registered

\* C1: for every query registered by query_raw the waiter observes exactly one
\* outcome, the one of the first update_query on its id; only that first
\* update_query returns true, every later one returns false and changes
\* nothing, and an Answer for an unknown or finished id is reported as
\* UnknownQueryAnswer.
C1_QueryLifecycle ==
    \A id \in AnswerIds :
        LET L == updLog[id] IN
        /\ \A i \in 1..Len(L) :
            /\ L[i].returned <=> (L[i].registered /\ ~RegisteredBefore(L, i))
            /\ ~L[i].returned => ~L[i].changed
            /\ L[i].result # "timer" =>
                   L[i].result = IF L[i].returned THEN "Ok" ELSE "UnknownQueryAnswer"
        /\ id \in QueryIds =>
            /\ Len(qobserved[id]) <= 1
            /\ Len(qobserved[id]) = 1 =>
                   \E i \in 1..Len(L) : L[i].returned /\ L[i].answer = qobserved[id][1]
            /\ (qpc[id] \in {"dropped", "returned"} /\ qtimer[id] # "none") =>
                   Len(qobserved[id]) = 1

\* C1 witness: an Answer won the race, the timeout task came second and was
\* refused, and the waiter saw the answer
C1_Witness ==
    \E id \in QueryIds :
        /\ Len(updLog[id]) >= 2
        /\ updLog[id][1].returned /\ updLog[id][1].answer \in Answers
        /\ updLog[id][2].result = "timer" /\ ~updLog[id][2].returned
        /\ qobserved[id] = <<updLog[id][1].answer>>

\* the update_query call that took the query out of Sent
Winner(id) == CHOOSE i \in 1..Len(updLog[id]) : updLog[id][i].returned

\* query_raw spawned the timeout task, i.e. its send_message succeeded
SendSucceeded(id) == qtimer[id] # "none"

\* C2 as stated (its safety half): a query_raw whose send succeeded returns
\* Ok(Some(answer)) or Ok(None) and nothing else
C2_ReturnsOkOnly ==
    \A id \in QueryIds :
        (qpc[id] = "returned" /\ SendSucceeded(id)) => qresult[id].tag = "Ok"

\* what a returned query_raw whose send succeeded gave back
ReturnedValueOk(id) ==
    LET w == updLog[id][Winner(id)] IN
    /\ \E i \in 1..Len(updLog[id]) : updLog[id][i].returned
    /\ w.answer # NoAnswer => qresult[id] = OkSome(w.answer)
    /\ w.answer = NoAnswer =>
        \/ qresult[id] = OkNone
        \/ /\ qresult[id] = Err("UnknownPeer")
           /\ qchannel[id] # NoChannel
           /\ ~qpeer.present

\* C2 (amended): every query_raw call whose send_message succeeded eventually
\* returns: Ok(Some(answer)) if an Answer is processed before the timeout task
\* fires; otherwise, once the timeout task dropped the query, Ok(None), or
\* Err(UnknownPeer) when the expired drop timeout of the captured channel
\* makes it call reset_peer and the peer was deleted meanwhile.
C2_QueryReturns ==
    /\ \A id \in QueryIds : (qpc[id] = "waiting") ~> (qpc[id] = "returned")
    /\ [](\A id \in QueryIds :
             (qpc[id] = "returned" /\ SendSucceeded(id)) => ReturnedValueOk(id))

\* C2 witness: the peer stayed silent, the timeout task dropped the query and
\* query_raw returned Ok(None)
C2_Witness ==
    \E id \in QueryIds :
        /\ qpc[id] = "returned"
        /\ qresult[id] = OkNone
        /\ Len(updLog[id]) = 1
        /\ updLog[id][1].result = "timer" /\ updLog[id][1].returned


\* query_raw call id leaves its Ok(None) branch in this step
DropObserved(id) == qpc[id] = "dropped" /\ qpc'[id] = "returned"

\* the step resets the peer: the peer has no channels_by_peers entry, channel
\* c has no in-id in channels_by_id and the ephemeral channel key is rotated
PeerWasReset(c) ==
    /\ qchannels_by_peers' = NoChannel
    /\ c \notin qchannels_by_id'
    /\ qchannels_by_id' = qchannels_by_id \ {qchannels_by_peers}
    /\ qpeer'.channel_key # qpeer.channel_key

\* the step leaves the peer and the channel tables alone
PeerNotReset ==
    UNCHANGED <<qpeer, qchannels_by_peers, qchannels_by_id>>

-----------------------------------------------------------------------------
(***************************************************************************)
(* Claims about send_message and send_packet.                              *)
(***************************************************************************)
\* the Part messages a send_message call has put into its packets
CallParts(call) ==
    {call.packets[i].messages[j] :
        <<i, j>> \in {<<i, j>> \in (1..Len(call.packets)) \X (1..2) :
                          /\ j <= Len(call.packets[i].messages)
                          /\ call.packets[i].messages[j].kind = "Part"}}

\* the byte ranges of the parts leave no byte of [0, total) out
PartsCover(parts, total) ==
    \A e \in {0} \cup {part.offset + part.len : part \in parts} :
        e < total =>
            \E part \in parts : part.offset <= e /\ e < part.offset + part.len

\* a finished send_message call that took the Part branch
SplitDone(call) == call.split /\ call.pc = "idle"

\* C3: the Part messages of a send_message call over 1024 bytes all carry the
\* hash and the total size of the serialized message, and their byte ranges
\* cover every byte of it, for every length and with or without an additional
\* CreateChannel or ConfirmChannel message.
C3_PartsCoverBody ==
    \A s \in Senders :
        SplitDone(s_call[s]) =>
            /\ \A part \in CallParts(s_call[s]) :
                   /\ part.hash = s_call[s].hash
                   /\ part.total_size = SerializedLen(s_call[s].msg)
            /\ PartsCover(CallParts(s_call[s]), SerializedLen(s_call[s].msg))

AllHandshake(call) ==
    \A i \in 1..Len(call.packets) :
        /\ call.packets[i].framing = "handshake"
        /\ call.packets[i].from
        /\ call.packets[i].reinit_dates
        /\ call.packets[i].signature

\* the first packet of a call carries the additional message, then the real
\* message or its first Part
AdditionalFirst(call, additional) ==
    /\ Len(call.packets[1].messages) = 2
    /\ call.packets[1].messages[1].kind = additional
    /\ call.packets[1].messages[2].kind = (IF call.split THEN "Part" ELSE call.msg.kind)

\* C9: a send_message call that found no ready channel emits only handshake
\* packets with from, reinit dates and signature, its first packet carrying
\* CreateChannel (no channel) or ConfirmChannel (channel not ready) before the
\* real message; channel framing is used only if the channel was ready at the
\* check.
C9_HandshakeUntilReady ==
    \A s \in Senders :
        s_call[s].packets # <<>> =>
            /\ s_call[s].at_check = "none" =>
                   AllHandshake(s_call[s]) /\ AdditionalFirst(s_call[s], "CreateChannel")
            /\ s_call[s].at_check = "notready" =>
                   AllHandshake(s_call[s]) /\ AdditionalFirst(s_call[s], "ConfirmChannel")
            /\ \A i \in 1..Len(s_call[s].packets) :
                   s_call[s].packets[i].framing = "channel" =>
                       s_call[s].at_check = "ready"

\* a call that found the channel not ready has sent several packets, the
\* channel became ready meanwhile, and another call uses channel framing
C9_Witness ==
    \E s, t \in Senders :
        /\ s_call[s].at_check = "notready"
        /\ Len(s_call[s].packets) >= 2
        /\ s_channel = "ready"
        /\ s_call[t].at_check = "ready"
        /\ s_call[t].packets # <<>>
        /\ s_call[t].packets[1].framing = "channel"

\* task s runs send_packet in this step, for a send_message call that asked
\* for the priority class on a channel it found ready
PrioritySendPacket(s) ==
    /\ s_call[s].pc # "queue"
    /\ s_call'[s].pc = "queue"
    /\ s_call'[s].priority

\* the packet the step built went out demoted: on the ordinary sub-channel,
\* with the next seqno of the ordinary sender history
BuiltDemoted(s) ==
    LET packet == s_call'[s].packets[Len(s_call'[s].packets)] IN
    /\ ~packet.priority
    /\ packet.seqno = s_sender_seqno[FALSE] + 1

\* the packet the step built went out on the priority sub-channel, with the
\* next seqno of the priority sender history
BuiltPriority(s) ==
    LET packet == s_call'[s].packets[Len(s_call'[s].packets)] IN
    /\ packet.priority
    /\ packet.seqno = s_sender_seqno[TRUE] + 1

-----------------------------------------------------------------------------
(***************************************************************************)
(* Claims about the reassembly of Part messages.                           *)
(***************************************************************************)
\* no handler task is inside process_message
HandlersDone == \A h \in Handlers : t_handler[h].pc = "idle"

\* C4: for the Parts of a body, processed in any order, with duplicates and by
\* concurrent handlers, process_message dispatches the body exactly once: not
\* twice, and not zero times once Parts covering the whole body were processed
\* (and no transfer was removed by its janitor).
C4_DispatchedExactlyOnce ==
    /\ t_dispatched <= 1
    /\ (HandlersDone /\ t_arrived = Body /\ ~t_expired) => t_dispatched = 1

\* C24: when a completed transfer decodes to a message that is itself a Part,
\* process_message fails with UnknownMessage, leaves no transfer in
\* incoming_transfers for the inner Part and dispatches nothing.
C24_NoRecursiveReassembly ==
    t_last.decoded = "Part" =>
        /\ t_last.result = "UnknownMessage"
        /\ t_last.entry = NoTransfer
        /\ ~t_last.dispatched

\* C24 witness: the second of two Parts completed a body that is a Part
C24_Witness ==
    /\ t_last.decoded = "Part"
    /\ t_last.result = "UnknownMessage"
    /\ t_covered[t_last.transfer] = Body
    /\ t_arrivals >= 2
    /\ t_dispatched = 0

\* C25: when add_part fails, for a fragment outside [0, total_size) or for a
\* completed buffer whose hash is not the transfer id, the entry is removed
\* from incoming_transfers, the error is returned and nothing is dispatched;
\* the next fragment of the same hash that finds the entry vacant puts a new
\* transfer there that has received nothing and has a janitor of its own.
C25_FailedTransferRemoved ==
    /\ [](t_last.result \in {"OutOfRange", "HashMismatch"} =>
             /\ t_last.entry = NoTransfer
             /\ ~t_last.dispatched)
    /\ [][(/\ t_last.result \in {"OutOfRange", "HashMismatch"}
            /\ incoming_transfers = NoTransfer
            /\ incoming_transfers' # NoTransfer)
               => /\ t_covered'[incoming_transfers'] = {}
                  /\ incoming_transfers' \in t_janitor' \ t_janitor]_vars

\* C25 witness: a transfer that had received a part was removed by a fragment
\* out of range, and the next fragment is about to be added to a new transfer
C25_Witness ==
    /\ t_last.result = "OutOfRange"
    /\ t_covered[t_last.transfer] # {}
    /\ \E h \in Handlers :
           /\ t_handler[h].pc = "add_part"
           /\ incoming_transfers = t_handler[h].transfer
           /\ t_handler[h].transfer # t_last.transfer

\* C26: every entry of incoming_transfers is eventually removed, also when the
\* transfer stays incomplete and no fragment arrives any more, and every
\* janitor task eventually ends.
C26_TransfersEventuallyRemoved ==
    <>[](incoming_transfers = NoTransfer /\ t_janitor = {})

\* C26 witness: a janitor removed an incomplete transfer and ended
C26_Witness ==
    /\ t_expired
    /\ t_dispatched = 0
    /\ incoming_transfers = NoTransfer
    /\ t_janitor = {}
    /\ \E o \in TransferObjects : t_covered[o] \notin {{}, Body}

\* C33: when query_raw resets the peer because the drop timeout of the channel
\* it captured has expired, every channel that leaves channels_by_peers or
\* channels_by_id in that step is the captured channel; a channel that
\* create_channel installed in the meantime stays in both tables.
C33_ResetRemovesCapturedChannel ==
    [][\A id \in QueryIds :
           (qpc[id] = "dropped" /\ qpc'[id] = "returned")
               => /\ qchannels_by_peers' # qchannels_by_peers
                         => qchannels_by_peers = qchannel[id]
                  /\ (qchannels_by_id \ qchannels_by_id') \subseteq {qchannel[id]}]_vars

\* C32: the janitor of a transfer removes only the transfer it was spawned
\* for: when it ends while incoming_transfers holds another transfer of the
\* same hash (one started after its own was completed or failed), it leaves
\* that entry in the table.
C32_JanitorRemovesOwnTransfer ==
    [][\A o \in TransferObjects :
           (/\ o \in t_janitor
            /\ o \notin t_janitor'
            /\ incoming_transfers # o)
               => incoming_transfers' = incoming_transfers]_vars

-----------------------------------------------------------------------------
(***************************************************************************)
(* Claims about check_packet and the histories.                            *)
(***************************************************************************)
\* how often a seqno of a class was accepted, over all reinit dates of the peer
AcceptedTimes(priority, seqno) ==
    LET count[dates \in SUBSET ReinitDateValues] ==
            IF dates = {} THEN 0
            ELSE LET d == CHOOSE d \in dates : TRUE IN
                 r_accepted[<<d, priority, seqno>>] + count[dates \ {d}]
    IN count[ReinitDateValues]

\* the seqno is above the maximum of the history
AboveMax(history, seqno) == seqno > history.max

\* the seqno is inside the window below the maximum and was not seen
UnseenInWindow(history, seqno) ==
    /\ seqno <= history.max
    /\ seqno > history.max - HistoryWindow
    /\ seqno \notin history.seen

\* the last packet reached the history check with this seqno
LastConsulted == r_enabled /\ r_last.consulted

\* C5 as stated: with packet_history_enabled every seqno of a class is accepted
\* at most once over all deliveries; a seqno above the maximum or unseen in the
\* window is accepted; a replayed or out-of-window seqno gives Ok(None) and
\* nothing is dispatched.
C5_AcceptedAtMostOnce ==
    r_enabled =>
        /\ \A p \in BOOLEAN, v \in Seqnos : AcceptedTimes(p, v) <= 1
        /\ LastConsulted =>
               IF \/ AboveMax(r_last.before, r_last.seqno.value)
                  \/ UnseenInWindow(r_last.before, r_last.seqno.value)
               THEN r_last.result = "Some"
               ELSE r_last.result = "None" /\ ~r_last.dispatched

\* C5, amended: with packet_history_enabled every seqno of a class is accepted
\* at most once per reinit date of the peer; a seqno above the maximum or unseen
\* in the window passes the history and is accepted unless the confirm seqno
\* check that follows fails; a replayed or out-of-window seqno gives Ok(None)
\* and nothing is dispatched.
C5_AcceptedOncePerReinit ==
    r_enabled =>
        /\ \A k \in DOMAIN r_accepted : r_accepted[k] <= 1
        /\ LastConsulted =>
               IF \/ AboveMax(r_last.before, r_last.seqno.value)
                  \/ UnseenInWindow(r_last.before, r_last.seqno.value)
               THEN /\ r_last.result \in {"Some", "ConfirmationSeqnoTooNew"}
                    /\ r_last.seqno.value \in r_history[r_last.priority].seen
               ELSE r_last.result = "None" /\ ~r_last.dispatched

\* seqno 3 and then seqno 2, inside the window, were accepted, and the replay of
\* seqno 2 was dropped
C5_Witness ==
    /\ r_enabled
    /\ r_last.consulted
    /\ r_last.seqno = Some(2)
    /\ r_last.before = [max |-> 3, seen |-> {2, 3}]
    /\ r_last.result = "None"
    /\ r_accepted[<<r_peer_reinit, r_last.priority, 2>>] = 1
    /\ r_accepted[<<r_peer_reinit, r_last.priority, 3>>] = 1

\* C7: every packet check_packet accepts leaves the maximum of the receiver
\* history of its class at or above the packet's seqno, and every packet
\* send_packet builds bumps the sender history of its class, whatever
\* packet_history_enabled is.
C7_HistoriesUpdated ==
    /\ (r_last.result = "Some" /\ r_last.seqno.some) =>
           r_history[r_last.priority].max >= r_last.seqno.value
    /\ \A p \in BOOLEAN : r_sender_seqno[p] = r_sent[p]

\* the outcome of the reinit stage the claim states for a packet, given the
\* reinit date the peer had before: an error, or "ok"
ReinitStage(dates, peer_reinit) ==
    IF dates.target > StartTime THEN "DstReinitDateTooNew"
    ELSE IF dates.local > ClockLimit THEN "SrcReinitDateTooNew"
    ELSE IF dates.local < peer_reinit THEN "SrcReinitDateTooOld"
    ELSE IF dates.target # 0 /\ dates.target < StartTime THEN "DstReinitDateTooOld"
    ELSE "ok"

ReinitErrors == {"DstReinitDateTooNew", "SrcReinitDateTooNew",
                 "SrcReinitDateTooOld", "DstReinitDateTooOld"}

\* the packets of the ordinary class built since the last step, the histories
\* being reset when the peer's reinit date moved
NopsBuilt ==
    r_sent'[FALSE] - (IF r_peer_reinit' # r_peer_reinit THEN 0 ELSE r_sent[FALSE])

\* C21 as stated: check_packet returns the first failure in the order
\* DstReinitDateTooNew, SrcReinitDateTooNew, SrcReinitDateTooOld,
\* DstReinitDateTooOld; the last one after one Nop was sent to the peer; no
\* other case sends a Nop, and otherwise the packet passes the reinit stage.
C21_ReinitChecksInOrder ==
    [][\A packet \in ReinitPackets, sent \in SendOutcomes :
          HandleReceivedData(packet, sent) =>
              LET stage == ReinitStage(packet.reinit_dates, r_peer_reinit) IN
              IF stage = "ok"
              THEN r_last'.result \notin ReinitErrors /\ NopsBuilt = 0
              ELSE /\ r_last'.result = stage
                   /\ NopsBuilt = IF stage = "DstReinitDateTooOld" THEN 1 ELSE 0]_vars

\* C21, amended: the same order; at DstReinitDateTooOld the Nop is sent first,
\* and if send_message fails its error is returned instead: UnknownPeer with no
\* packet built, FailedToSendPacket with the Nop built but not queued.
C21_ReinitChecksInOrderNopSent ==
    [][\A packet \in ReinitPackets, sent \in SendOutcomes :
          HandleReceivedData(packet, sent) =>
              LET stage == ReinitStage(packet.reinit_dates, r_peer_reinit) IN
              IF stage = "ok"
              THEN r_last'.result \notin ReinitErrors /\ NopsBuilt = 0
              ELSE IF stage # "DstReinitDateTooOld"
              THEN r_last'.result = stage /\ NopsBuilt = 0
              ELSE /\ r_last'.result = IF sent = "Ok" THEN stage ELSE sent
                   /\ NopsBuilt = IF sent = "UnknownPeer" THEN 0 ELSE 1]_vars

\* C21 witness: a packet with a newer reinit date of the peer and an older one
\* of ours reset the peer's state, had one Nop sent and was refused
C21_Witness ==
    /\ r_last.result = "DstReinitDateTooOld"
    /\ r_last.nop = "Ok"
    /\ r_peer_reinit = StartTime + 1
    /\ r_sent[FALSE] = 1
    /\ r_sender_seqno[FALSE] = 1

\* the Answer of a finished send_message call went out whole: as one message,
\* or as Parts that cover it
AnswerSent(call) ==
    \/ \E i \in 1..Len(call.packets), j \in 1..2 :
           /\ j <= Len(call.packets[i].messages)
           /\ call.packets[i].messages[j].kind = "Answer"
    \/ /\ call.split
       /\ PartsCover(CallParts(call), SerializedLen(call.msg))

\* handler s answered its query and the send_message call is over
Answered23(s) ==
    /\ a_query[s].state = "done"
    /\ s_call[s].pc = "idle"

\* C23: for an accepted Query, Processed(Some(answer)) sends exactly one Answer
\* back to the peer, in packets of the priority class the query arrived with,
\* and succeeds; Processed(None) sends nothing and succeeds; Rejected sends
\* nothing and fails with NoSubscribersForQuery.
C23_AnswerOnSamePriority ==
    \A s \in Senders :
        Answered23(s) =>
            CASE a_query[s].result = "ProcessedSome" ->
                     /\ a_query[s].returned = "Ok"
                     /\ s_call[s].msg.kind = "Answer"
                     /\ AnswerSent(s_call[s])
                     /\ \A i \in 1..Len(s_call[s].packets) :
                            s_call[s].packets[i].priority = a_query[s].priority
              [] a_query[s].result = "ProcessedNone" ->
                     a_query[s].returned = "Ok" /\ s_call[s].packets = <<>>
              [] a_query[s].result = "Rejected" ->
                     /\ a_query[s].returned = "NoSubscribersForQuery"
                     /\ s_call[s].packets = <<>>

-----------------------------------------------------------------------------
(***************************************************************************)
(* Claims about the channel tables.                                        *)
(***************************************************************************)
InAllThree(c) ==
    /\ channels_by_peers = c
    /\ \A class \in Classes : <<c, class>> \in channels_by_id

InNone(c) ==
    /\ channels_by_peers # c
    /\ \A class \in Classes : <<c, class>> \notin channels_by_id

\* C8: whenever the channels_by_peers entry is not held by a task, so that a
\* concurrent handler can read both tables, every channel is in all three
\* places or in none; and no handler finds a channel by in-id while
\* channels_by_peers holds no channel or another one.
C8_ChannelTablesAtomic ==
    /\ c_entry_lock = NoTask =>
           \A c \in ChannelIds : InAllThree(c) \/ InNone(c)
    /\ \A h \in Observers :
           c_handler[h].pc = "check_packet" =>
               c_handler[h].by_peers = c_handler[h].found

\* task t takes the step of create_channel that removes an in-id of the channel
\* it replaces
RemovesOldInId(t) ==
    /\ c_task[t].pc \in {"rm_old_ord", "rm_old_pri"}
    /\ c_task'[t].pc # c_task[t].pc

\* C19: when create_channel replaces the channel of a peer, it removes an in-id
\* of the old channel only while it holds the channels_by_peers entry of the
\* peer and after both in-ids of the new channel are in channels_by_id, so the
\* peer is never without an in-id in channels_by_id during a replacement.
C19_NewInstalledBeforeOldRemoved ==
    [][\A t \in Tasks :
          RemovesOldInId(t) =>
              /\ c_entry_lock = t
              /\ \A class \in Classes : <<c_task[t].new, class>> \in channels_by_id
              /\ channels_by_id' # {}]_vars

\* no create_channel and no reset_peer is in progress
NoneInProgress == \A t \in Tasks : c_task[t].pc = "idle"

\* C20: whenever no create_channel and no reset_peer is in progress, the channel
\* in channels_by_peers has its ordinary and its priority in-id in
\* channels_by_id, and channels_by_id holds no in-id of any other channel.
C20_TablesAgreeWhenQuiet ==
    NoneInProgress =>
        \A c \in ChannelIds : InAllThree(c) \/ InNone(c)

InTables(c) ==
    \/ channels_by_peers = c
    \/ \E class \in Classes : <<c, class>> \in channels_by_id

\* C28: a channel is created not ready (first creation or replacement, Create
\* or Confirm context); it becomes ready only by a successful decrypt of a
\* packet addressed to one of its in-ids or by a ConfirmChannel that matches
\* it; once ready it stays ready for as long as it is in the tables.
C28_ReadyOnlyByDecryptOrConfirm ==
    [][\A c \in ChannelIds :
          /\ (channels_by_peers # c /\ channels_by_peers' = c) => c \notin c_ready'
          /\ (c \notin c_ready /\ c \in c_ready') =>
                \/ \E h \in Observers, class \in Classes :
                       HandlerFindsChannel(h, c, class, TRUE)
                \/ \E t \in Tasks, key \in ChannelKeys, date \in Dates :
                       /\ channels_by_peers = c
                       /\ StillValid(c, key, date)
                       /\ CreateChannelEntry(t, key, date, "ConfirmChannel")
          /\ (c \in c_ready /\ InTables(c) /\ InTables(c)') => c \in c_ready'
      ]_vars

\* a handler made the peer's channel ready by decrypting a packet, and a second
\* channel, not ready, replaced a ready one
C28_Witness ==
    \E h \in Observers, t \in Tasks :
        /\ c_handler[h].pc = "check_packet"
        /\ c_handler[h].found \in c_ready
        /\ c_task[t].pc = "rm_old_ord"
        /\ c_task[t].old = c_handler[h].found
        /\ c_task[t].new \notin c_ready

-----------------------------------------------------------------------------
(***************************************************************************)
(* Claims about channel bootstrapping.                                     *)
(***************************************************************************)
\* both nodes hold a ready channel and their last packet used channel framing
BothReady ==
    \A n \in Nodes :
        /\ b_channel[n].exists
        /\ b_channel[n].ready
        /\ b_sent[n] = "channel"

\* C10: between two nodes that know each other, without loss, restart or peer
\* reset, and with both sides sending, eventually each node holds a ready
\* channel for the other and sends with channel framing and no additional
\* message, also when both send their first CreateChannel at the same time.
C10_BootstrapCompletes == <>BothReady

-----------------------------------------------------------------------------
(***************************************************************************)
(* Claims about the source and the signature of a packet.                  *)
(***************************************************************************)
\* the node a handshake-framed packet names as its sender
NamedSender(packet) ==
    IF packet.from # NotGiven THEN packet.from ELSE packet.from_short

\* C12: with packet_signature_required = true, every handshake-framed packet
\* that check_packet accepts carried a signature that verifies under the
\* public key of its sender, whether the sender is named by `from` or only by
\* `from_short`; unsigned handshake packets are rejected.
C12_SignedHandshakeOnly ==
    (/\ k_required
     /\ k_last.result = "Ok"
     /\ k_last.packet.framing = "handshake")
        => k_last.packet.signature = NamedSender(k_last.packet)

\* the packet names a source itself
ExplicitSource(packet) == packet.from # NotGiven \/ packet.from_short # NotGiven

\* the peer check_packet resolves for a packet that passes the source checks
ResolvedPeer(packet) ==
    IF packet.framing = "channel" THEN KnownPeer ELSE NamedSender(packet)

\* the error the claim names for the packet, the tables as at the lookup
SourceError(packet, channels, peers) ==
    IF packet.framing = "channel" /\ ExplicitSource(packet)
    THEN "ExplicitSourceForChannel"
    ELSE IF /\ packet.framing = "handshake"
            /\ packet.from # NotGiven
            /\ packet.from_short \notin {NotGiven, packet.from}
    THEN "InvalidPeerId"
    ELSE IF packet.framing = "handshake" /\ ~ExplicitSource(packet)
    THEN "NoKeyDataInPacket"
    ELSE IF packet.framing = "channel" /\ ResolvedPeer(packet) \notin channels
    THEN "UnknownChannel"
    ELSE IF ResolvedPeer(packet) \notin peers THEN "UnknownPeer"
    ELSE "Ok"

\* C22 as stated: check_packet rejects a channel frame with `from` or
\* `from_short` with ExplicitSourceForChannel, a handshake frame whose `from`
\* and `from_short` disagree with InvalidPeerId, a handshake frame with neither
\* with NoKeyDataInPacket, a channel frame whose peer has no entry in
\* channels_by_peers with UnknownChannel, and a resolved peer that is not in the
\* peer table with UnknownPeer; it returns Some(peer_id) only if none of these
\* applies.
C22_SourceErrors ==
    k_last.result # "none" =>
        LET error == SourceError(k_last.packet, k_last.channels, k_last.peers) IN
        IF error = "Ok" THEN TRUE ELSE k_last.result = error

\* C22, amended: the same, except that for a handshake frame with `from` the
\* signature is verified under that key before the peer table is consulted, so
\* an unknown peer with a missing or invalid signature is refused with
\* SignatureNotFound or InvalidSignature instead of UnknownPeer.
C22_SourceRejectedBeforeDispatch ==
    k_last.result # "none" =>
        LET packet == k_last.packet
            error == SourceError(packet, k_last.channels, k_last.peers)
            result == k_last.result
        IN /\ result = "Ok" => error = "Ok"
           /\ error \notin {"Ok", "UnknownPeer"} => result = error
           /\ error = "UnknownPeer" =>
                  \/ result = "UnknownPeer"
                  \/ /\ packet.from # NotGiven
                     /\ result \in {"SignatureNotFound", "InvalidSignature"}

\* C22 witness: a channel frame arrived for a peer that delete_peer had removed
\* while its channel was still in channels_by_peers, and was refused
C22_Witness ==
    /\ k_last.packet.framing = "channel"
    /\ k_last.result = "UnknownPeer"
    /\ KnownPeer \in k_last.channels
    /\ KnownPeer \notin k_last.peers

-----------------------------------------------------------------------------
(***************************************************************************)
(* Claims about replayed datagrams.                                        *)
(***************************************************************************)
\* the state of the peer and of its channel
PeerAndChannel == <<g_present, g_ip, g_reinit, g_history, g_channel, g_drop>>

\* C13: replaying an already accepted datagram (same bytes, same seqno) to a
\* node with packet history enabled is dropped silently with no state change:
\* handle_received_data returns Ok, no message is dispatched, and the peer
\* table, the peer IP, the reinit dates, the seqno histories, the channel
\* readiness and the drop timeout are as they were before the replay, for
\* handshake-framed and channel-framed datagrams alike.
C13_ReplayChangesNothing ==
    [][(g_handled' # g_handled /\ g_last'.datagram \in g_accepted) =>
          /\ g_last'.result = "Ok"
          /\ ~g_last'.dispatched
          /\ PeerAndChannel' = PeerAndChannel]_vars

\* the state of the peer in the peer table
PeerState == <<g_present, g_ip, g_reinit, g_history>>

\* C35: a datagram that check_packet rejects with an error leaves the peer
\* state as it was: no peer is added, and the IP address, the reinit date and
\* the seqno histories of the peer are unchanged, whichever check fails.
C35_RejectedChangesNothing ==
    [][(/\ g_handled' # g_handled
        /\ g_last'.result \in {"UnknownPeer", "SrcReinitDateTooOld"})
           => PeerState' = PeerState]_vars

-----------------------------------------------------------------------------
(***************************************************************************)
(* Claims about start, shutdown and the background tasks.                  *)
(***************************************************************************)
\* number of recv_from results the receiver loop has taken
Received == n_arrived - Len(n_socket)

\* C14: no datagram stops the node: whatever error a handler task returns, and
\* after any error of recv_from or send_to, the receiver loop keeps receiving
\* and spawning handlers for later datagrams and the sender loop keeps
\* draining the queue, as long as the node is not shut down.
C14_LoopsKeepRunning ==
    /\ []((n_spawns > 0 /\ ~n_cancelled) =>
             (n_receiver = "waiting" /\ n_sender \in {"waiting", "sending"}))
    /\ \A w \in 0..MaxQueued :
           (n_spawns > 0 /\ n_queue > 0 /\ n_written = w)
               ~> (n_cancelled \/ n_written > w)
    /\ \A r \in 0..MaxReceived :
           (n_spawns > 0 /\ n_socket # <<>> /\ Received = r)
               ~> (n_cancelled \/ Received > r)

\* C14 witness: a handler returned an error, recv_from and send_to failed, and
\* afterwards the node spawned a handler for a datagram and wrote a packet
C14_Witness ==
    /\ ~n_cancelled
    /\ n_errors = ErrorKinds
    /\ n_after = {"spawn", "write"}

\* C15: start spawns the sender and the receiver task at most once per node
\* and returns AlreadyRunning exactly when an earlier start call spawned
\* them; a start that failed at the socket bind surfaces the bind error and
\* leaves the node startable by a later call.
C15_AlreadyRunningIffSpawned ==
    /\ n_spawns <= 1
    /\ n_last_start.result = "AlreadyRunning" <=>
           (n_starts > 0 /\ n_last_start.spawns > 0)

\* C16: after shutdown the sender task and the receiver task each terminate
\* at their next suspension point (queue receive, socket receive) whatever
\* they were waiting for; no further datagram handler is spawned and no
\* further queued packet is taken to be written to the socket.
C16_StopsAtNextSuspension ==
    [][/\ (n_cancelled /\ n_sender = "waiting") => n_sender' # "sending"
       /\ (n_cancelled /\ n_receiver = "waiting") =>
              (n_handlers' = n_handlers /\ n_receiver' \in {"waiting", "stopped"})]_vars

-----------------------------------------------------------------------------
(***************************************************************************)
(* Claims about the handshake codec.                                       *)
(***************************************************************************)
\* C18: handshake round trip: for any body B and recipient key K,
\* parse_handshake_packet over a key set containing K applied to
\* build_handshake_packet(B, K) returns Some(short(K)) and leaves exactly B in
\* the buffer; over a key set that does not contain short(K) it returns None
\* without error.
C18_RoundTrip ==
    h_pc = "parsed" =>
        IF h_key \in h_keys
        THEN /\ h_parsed.result = "Some"
             /\ h_parsed.key = ShortId(h_key)
             /\ h_parsed.data = h_body
        ELSE h_parsed.result = "None"

\* the data_length of the parse call takes the whole body
WholeBody == h_data_length \in {NoLength, Len(h_body)}

\* C18 (amended): the round trip holds for a parse call whose data_length is
\* None or the length of B; over a key set without short(K) it returns None
\* without error unless data_length is larger than the body, which is the
\* error BadHandshakePacketLength.
C18_RoundTripWholeBody ==
    h_pc = "parsed" =>
        IF h_data_length # NoLength /\ h_data_length > Len(h_body)
        THEN h_parsed.result = "BadHandshakePacketLength"
        ELSE IF h_key \notin h_keys THEN h_parsed.result = "None"
        ELSE WholeBody =>
                 /\ h_parsed.result = "Some"
                 /\ h_parsed.key = ShortId(h_key)
                 /\ h_parsed.data = h_body

\* C18 witness: a body of full length whose bytes the cipher changed came back
\* whole from a parse over both local keys
C18_Witness ==
    /\ h_pc = "parsed"
    /\ Len(h_body) = MaxBody
    /\ h_packet.data # h_body
    /\ h_keys = IdentityKeys
    /\ h_data_length = NoLength
    /\ h_parsed = [result |-> "Some", key |-> ShortId(h_key), prefix |-> 0,
                   data |-> h_body]


\* the buffer handed to parse_handshake_packet, and after it
BufferLen == h_packet.header + Len(h_packet.data)
KeyMatches == \E key \in h_keys : ShortId(key) = h_packet.recipient
BufferUnchanged ==
    /\ h_parsed.prefix = h_packet.header
    /\ h_parsed.data = h_packet.data
WasParsed == h_pc \in {"parsed", "received"}

LongEnough ==
    BufferLen >= HeaderLen + (IF h_data_length = NoLength THEN 0 ELSE h_data_length)

-----------------------------------------------------------------------------
(***************************************************************************)
(* Claims about the peers table.                                           *)
(***************************************************************************)
\* C29: add_peer returns false and changes nothing when the peer is the node
\* itself (same id and the node's own address) or the node filter rejects it;
\* otherwise it returns true, and either creates the peer with reinit dates
\* equal to the node start time (unknown peer) or updates only the IP address
\* of the known peer, whose full id, histories, reinit dates and channel key
\* stay as they were.
C29_AddPeer ==
    p_last.result # "none" =>
        /\ p_last.others_unchanged
        /\ IF p_last.self \/ p_last.rejected
           THEN p_last.result = "false" /\ p_last.unchanged
           ELSE /\ p_last.result = "true"
                /\ IF p_last.was_known THEN p_last.only_ip ELSE p_last.created

\* C29, for a local id the node has a peers table for; for any other local id
\* a peer that passes the two refusals ends add_peer with PeersNotFound, and
\* nothing changes.
C29_AddPeerOfKnownLocalId ==
    p_last.result # "none" =>
        /\ p_last.others_unchanged
        /\ IF p_last.self \/ p_last.rejected
           THEN p_last.result = "false" /\ p_last.unchanged
           ELSE IF ~p_last.local_known
           THEN p_last.result = "PeersNotFound" /\ p_last.unchanged
           ELSE /\ p_last.result = "true"
                /\ IF p_last.was_known THEN p_last.only_ip ELSE p_last.created

\* add_peer gave a known peer, whose history, reinit date and channel key are
\* no longer those of a new peer, another address
C29_Witness ==
    /\ p_last.result = "true"
    /\ p_last.was_known
    /\ ~p_last.unchanged
    /\ p_last.peer_id \in PeerIds
    /\ p_peers[p_last.peer_id] # NoPeer
    /\ p_peers[p_last.peer_id].sender_reinit # StartTime
    /\ p_peers[p_last.peer_id].history # 0
    /\ p_peers[p_last.peer_id].channel_key # "c1"

-----------------------------------------------------------------------------
(***************************************************************************)
(* Claims about the channels of a node with several local identities.      *)
(***************************************************************************)
\* C31: channels are bound to one local identity: the channel send_message
\* (local_id, peer_id) uses for channel framing, and the channel create_channel
\* (local_id, peer_id, ..) treats as still valid, was created for that local_id.
C31_ChannelOfSameLocalId ==
    /\ (m_last.op = "send_message" /\ m_last.outcome = "channel") =>
           m_last.channel.local_id = m_last.local_id
    /\ m_last.outcome = "still_valid" =>
           m_last.channel.local_id = m_last.local_id

\* C36: a ConfirmChannel makes a channel ready only if the peer_key it names is
\* the local channel key the channel was built from.
C36_ConfirmNamesLocalKey ==
    (m_last.op = "ConfirmChannel" /\ m_last.made_ready) =>
        m_last.peer_key = m_last.channel.local_key

\* C37: every channel in channels_by_peers or channels_by_id belongs to a peer
\* that is present in the peer table of the channel's local id, also after
\* delete_peer or delete_key of that local id.
C37_ChannelOfPresentPeer ==
    m_channel # NoIdChannel => m_channel.local_id \in m_peers

-----------------------------------------------------------------------------
(***************************************************************************)
(* Claims about the guards of the tables.                                  *)
(***************************************************************************)
\* C34: no interleaving of datagram handlers (check_packet, create_channel,
\* send_message) and query_raw's reset_peer deadlocks: while a call is running
\* some running task's next guard operation is granted, also by locks that
\* make readers wait behind waiting writers; and every guard is acquired in
\* the order peer table, channels_by_peers, channels_by_id: a task that
\* acquires a guard on a table holds guards on earlier tables only, so the
\* peer guard is gone when check_packet calls send_message and no write guard
\* is held while waiting for an earlier table.
C34_NoDeadlockGuardsInOrder ==
    /\ (\E t \in GuardTasks : Running(t)) =>
           \E t \in GuardTasks :
               Running(t) /\ LockGrantsBehindWriters(t, NextOp(t))
    /\ \A t \in GuardTasks, held \in Tables :
           (/\ Running(t)
            /\ NextOp(t)[1] # "release"
            /\ Holds(t, held))
               => TableOrder(held) < TableOrder(NextOp(t)[2])

\* C34 witness: a create_channel that holds the entry of channels_by_peers
\* waits for channels_by_id, held by a handler that decrypts a channel frame,
\* while reset_peer waits for the peer guard
C34_Witness ==
    \E c, h \in GuardTasks \ {QueryTask} :
        /\ c # h
        /\ HoldsWrite(c, ByPeers)
        /\ Holds(c, PeerTable)
        /\ Wants(c, "write", ById)
        /\ Holds(h, ById)
        /\ Wants(QueryTask, "write", PeerTable)

-----------------------------------------------------------------------------
(***************************************************************************)
(* Claims about the buckets of the DHT node.                               *)
(***************************************************************************)
\* bit n of a key, bit 0 being the highest bit of the first byte
KeyBit(key, n) == (key[(n \div 8) + 1] \div 2^(7 - (n % 8))) % 2
BitPositions == 0..(8 * KeyLen - 1)
Differ(key1, key2, n) == KeyBit(key1, n) # KeyBit(key2, n)

\* the number of leading bits two keys have in common
CommonLeadingBits(key1, key2) ==
    IF key1 = key2 THEN 8 * KeyLen
    ELSE CHOOSE n \in BitPositions :
             /\ Differ(key1, key2, n)
             /\ \A m \in 0..(n - 1) : ~Differ(key1, key2, m)

\* the version stored for a peer id, 0 if there is none
StoredVersion(buckets, peer_id) ==
    IF Stored(buckets, peer_id) = {} THEN 0
    ELSE (CHOOSE e \in Stored(buckets, peer_id) : TRUE).version

\* C38: Buckets::insert keeps, for each peer id, the node record with the
\* highest version seen, in exactly one bucket, the one indexed by
\* get_affinity(local_id, peer_id); over any sequence of inserts the stored
\* version of a peer never decreases, and an insert whose version is not
\* strictly greater than the stored one leaves the buckets unchanged.
C38_InsertKeepsHighestVersion ==
    /\ [](\A p \in PeerKeys :
             u_seen[p] > 0 =>
                 Stored(u_buckets, p) =
                     {NodeRecord(get_affinity(as_slice(u_local), as_slice(p),
                                              u_checks).value,
                                 p, u_seen[p])})
    /\ [][\A p \in PeerKeys :
              /\ StoredVersion(u_buckets', p) >= StoredVersion(u_buckets, p)
              /\ (/\ u_last'.op = "insert"
                  /\ u_last'.key2 = p
                  /\ u_seen' = u_seen
                  /\ StoredVersion(u_buckets, p) >= u_last'.version)
                     => u_buckets' = u_buckets]_vars

\* C39: Buckets::find(local_id, key, k) returns at most k nodes for every k,
\* k = 0 included; every returned node comes from a bucket whose index is a
\* bit position at which local_id and key differ, and the buckets are visited
\* in increasing index order.
C39_FindAtMostK ==
    u_last.op = "find" =>
        /\ Len(u_last.nodes) <= u_last.k
        /\ \A i \in 1..Len(u_last.nodes) :
               Differ(as_slice(u_last.key1), as_slice(u_last.key2),
                      u_last.nodes[i].bucket)
        /\ \A i \in 1..Len(u_last.visited) :
               /\ Differ(as_slice(u_last.key1), as_slice(u_last.key2),
                         u_last.visited[i])
               /\ i > 1 => u_last.visited[i - 1] < u_last.visited[i]

\* C40: get_affinity(key1, key2) returns the number of leading bits the two
\* keys have in common, for every pair of keys, equal keys and keys that
\* differ only in their last bits included, and the result computed in 8-bit
\* arithmetic is a valid index into the 256 buckets.
C40_AffinityIsCommonPrefix ==
    u_last.op \in {"get_affinity", "insert"} =>
        /\ ~u_last.affinity.panicked
        /\ u_last.affinity.value =
               CommonLeadingBits(as_slice(u_last.key1), as_slice(u_last.key2))
        /\ u_last.affinity.value \in 0..(BucketCount - 1)

============================================================================
